---- MODULE Spec2Model ----
(***************************************************************************)
(* The Elasticsearch bulk visibility processor (processorImpl): the ack    *)
(* map, the ack channels, Add with its de-dup logic, the before/after      *)
(* commit hooks and the Start/Stop lifecycle, together with the bulk       *)
(* engine it drives.                                                       *)
(***************************************************************************)
EXTENDS Integers, Sequences, FiniteSets, TLC

\* ------------------------------------------------------------------ bounds

\* Number of Add calls made over a run (each creates one ack channel).
MaxAdds == 2

\* Number of commits the search engine may answer with a retryable
\* top-level error or with retryable item statuses.
MaxRetries == 1

\* The flush threshold of the engine, in requests (ESProcessorBulkActions).
BulkActions == 3

\* ----------------------------------------------------------- configuration

\* Parallel flushers of the engine (ESProcessorNumOfWorkers).
NumOfWorkers == 1

\* Calls on the SQL shard store, and the range IDs they use.
MaxShardCalls == 2

MaxRangeID == 2

\* cfg.IndexerConcurrency(), the value NewProcessor stores in
\* p.indexerConcurrency.
IndexerConcurrency == 2

CallIds == 1..MaxAdds
WorkerIds == 1..NumOfWorkers

\* ------------------------------------------------------- requests and keys

VisibilityTaskKey == "VisibilityTaskKey"

IndexRequest(id, key) ==
    [RequestType |-> "index", ID |-> id, Doc |-> (VisibilityTaskKey :> key)]

DeleteRequest(id) ==
    [RequestType |-> "delete", ID |-> id, Doc |-> <<>>]

\* What the callers of Add pass: the request and its visibility task key.
\* An index request is keyed by its task, a delete by the document id
\* itself; the two tasks are of one workflow run and share the document.
AddInputs ==
    { <<IndexRequest("d1", "k1"), "k1">>,
      <<DeleteRequest("d1"), "d1">> }

\* A line of the bulk source: whether json.Unmarshal accepts it as an object,
\* and the object.
JsonLine(object) == [parses |-> TRUE, json |-> object]

RawLine == [parses |-> FALSE, json |-> <<>>]

\* The action line: the operation and under it the _id, left out when the
\* request has no id.
ActionLine(op, id) ==
    JsonLine(op :> (IF id = "" THEN <<>> ELSE ("_id" :> id)))

\* An update request; its body line carries the document.
UpdateRequest(id, key) ==
    [RequestType |-> "update", ID |-> id, Doc |-> (VisibilityTaskKey :> key)]

\* An index request whose document is not a JSON object.
RawDocRequest(id) == [RequestType |-> "indexRaw", ID |-> id, Doc |-> <<>>]

\* A request whose one line is not JSON, and one whose Source() fails.
RawRequest == [RequestType |-> "raw", ID |-> "", Doc |-> <<>>]

BrokenRequest == [RequestType |-> "broken", ID |-> "", Doc |-> <<>>]

\* request.Source(): the error, or the bulk lines: the action line, then
\* the body (none for a delete).
Source(request) ==
    CASE request.RequestType = "broken" ->
           [err |-> TRUE, lines |-> <<>>]
      [] request.RequestType = "raw" ->
           [err |-> FALSE, lines |-> <<RawLine>>]
      [] request.RequestType = "delete" ->
           [err |-> FALSE, lines |-> <<ActionLine("delete", request.ID)>>]
      [] request.RequestType = "indexRaw" ->
           [err |-> FALSE, lines |-> <<ActionLine("index", request.ID), RawLine>>]
      [] OTHER ->
           [err |-> FALSE,
            lines |-> <<ActionLine(request.RequestType, request.ID),
                        JsonLine(request.Doc)>>]

extractDocID(request) ==
    LET req == Source(request)
    IN  IF req.err \/ ~req.lines[1].parses THEN ""
        ELSE LET body == req.lines[1].json
                 ops  == {op \in DOMAIN body : "_id" \in DOMAIN body[op]}
             IN  IF ops = {} THEN "" ELSE body[CHOOSE op \in ops : TRUE]["_id"]

\* The key always taken from the action line.
extractVisibilityTaskKeyOneLine(request) == extractDocID(request)

extractVisibilityTaskKey(request) ==
    LET req == Source(request)
    IN  IF req.err THEN ""
        ELSE IF Len(req.lines) = 2
        THEN IF ~req.lines[2].parses THEN ""
             ELSE IF VisibilityTaskKey \in DOMAIN req.lines[2].json
             THEN req.lines[2].json[VisibilityTaskKey]
             ELSE ""
        ELSE extractDocID(request)

\* Corrupted-data increments made by the two extractions.
extractDocIDCorrupted(request) ==
    IF extractDocID(request) = "" THEN 1 ELSE 0

extractVisibilityTaskKeyCorrupted(request) ==
    LET req == Source(request)
    IN  IF req.err THEN 1
        ELSE IF Len(req.lines) = 2
        THEN IF req.lines[2].parses /\ VisibilityTaskKey \in DOMAIN req.lines[2].json
             THEN 0 ELSE 1
        ELSE extractDocIDCorrupted(request)

\* ------------------------------------------------------- response handling

NoItem == [Status |-> 0, ErrorType |-> "no item"]

\* What the search engine may answer for one request of a bulk.
ItemOutcomes ==
    { [Status |-> 201, ErrorType |-> ""],
      [Status |-> 404, ErrorType |-> "index_not_found_exception"],
      [Status |-> 429, ErrorType |-> "es_rejected_execution_exception"],
      [Status |-> 500, ErrorType |-> "internal_error"],
      NoItem }

IsRetryableStatus(status) == status \in {408, 429, 503, 507}

IsRetryableError(err) == err = "retryable"

\* isSuccess accepting status 200 alone.
isSuccessOnly200(item) == item.Status = 200

isSuccess(item) ==
    IF item.Status >= 200 /\ item.Status < 300 THEN TRUE
    ELSE IF item.Status = 409 THEN TRUE
    ELSE IF item.Status = 404
         THEN IF item.ErrorType = "index_not_found_exception" THEN FALSE ELSE TRUE
    ELSE FALSE

\* response.Items of a commit: one item per answered request, in request
\* order, carrying the request's document id.
RECURSIVE ResponseItems(_, _, _)
ResponseItems(requests, outcome, n) ==
    IF n > Len(requests) THEN <<>>
    ELSE (IF outcome[n] = NoItem THEN <<>>
          ELSE << [Id |-> requests[n].ID, Status |-> outcome[n].Status,
                   ErrorType |-> outcome[n].ErrorType] >>)
         \o ResponseItems(requests, outcome, n + 1)

\* buildResponseIndex keeping, per document id, the item that comes last.
RECURSIVE buildResponseIndexFromLast(_, _, _)
buildResponseIndexFromLast(items, n, result) ==
    IF n > Len(items) THEN result
    ELSE buildResponseIndexFromLast(items, n + 1, (items[n].Id :> items[n]) @@ result)

RECURSIVE buildResponseIndexFrom(_, _, _)
buildResponseIndexFrom(items, n, result) ==
    IF n > Len(items) THEN result
    ELSE LET responseItem == items[n]
             duplicateID  == responseItem.Id \in DOMAIN result
         IN  buildResponseIndexFrom(items, n + 1,
                 IF ~duplicateID \/ result[responseItem.Id].Status < responseItem.Status
                 THEN (responseItem.Id :> responseItem) @@ result
                 ELSE result)

buildResponseIndex(items) == buildResponseIndexFrom(items, 1, <<>>)

\* ------------------------------------------------------------------- state

VARIABLES
    status,        \* p.status
    mapSet,        \* p.mapToAckChan is not nil
    bpSet,         \* p.bulkProcessor is not nil
    mapToAckChan,  \* the entries of the allocated map: key -> *ackChan
    ackChans,      \* the ackChan objects, by the call that created them
    chSent,        \* the values sent on each channel, in order
    calls,         \* the Add calls: position, arguments, locals, result
    lastPut,       \* per key, the call whose PutOrDo ran last
    startPc,       \* position of the Start call that won the CAS
    stopPc,        \* position of the Stop call that won the CAS
    engine,        \* the bulk engine: "none", "running", "stopped"
    queue,         \* requests buffered in the engine
    workers,       \* the engine's flushers and the batch each commits
    retries,       \* commits answered with something retryable so far
    metrics,       \* the metrics client and its counters
    crashed,       \* the process died (nil dereference)
    indexerConcurrency, \* p.indexerConcurrency
    shards,        \* the shards table of the SQL store: ShardID -> row
    shardCalls     \* the calls on the sqlShardStore: position, request, result

vars == <<status, mapSet, bpSet, mapToAckChan, ackChans, chSent, calls, lastPut,
          startPc, stopPc, engine, queue, workers, retries, metrics, crashed,
          indexerConcurrency, shards, shardCalls>>

NoAckChan == [ackChInternal |-> 0, addedAt |-> 0, startedAt |-> 0]

NoRequest == [RequestType |-> "none", ID |-> "", Doc |-> <<>>]

\* An Add call: its position ("idle", "put", "enqueue", "return", "done",
\* or "panic", and the positions inside the mutator where PutOrDo is taken
\* apart), its arguments, its locals retCh and isDup, whether the map
\* reference it loaded for PutOrDo was set, the number of requests it has
\* handed to the engine, the channel it returned and the object PutOrDo
\* handed to its mutator.
IdleCall == [pc |-> "idle", request |-> NoRequest, visibilityTaskKey |-> "",
             retCh |-> 0, mapLoaded |-> FALSE, isDup |-> FALSE, handed |-> 0,
             returned |-> 0, existing |-> 0]

IdleWorker == [phase |-> "idle", requests |-> <<>>, i |-> 0, err |-> "",
               outcome |-> <<>>]

\* The metrics client handed to NewProcessor: one that counts, or the no-op
\* client.
CountingClient == [noop |-> FALSE, requests |-> 0, failures |-> 0,
                   corrupted |-> 0, retries |-> 0]

NoopClient == [noop |-> TRUE, requests |-> 0, failures |-> 0,
               corrupted |-> 0, retries |-> 0]

\* metricsClient.AddCounter / IncCounter on the four counters.
AddCounters(m, requests, failures, corrupted, retried) ==
    IF m.noop THEN m
    ELSE [m EXCEPT !.requests = @ + requests, !.failures = @ + failures,
                   !.corrupted = @ + corrupted, !.retries = @ + retried]

\* The state NewProcessor builds, before Start.
NewProcessor(metricsClient) ==
    /\ status = "Initialized"
    /\ mapSet = FALSE
    /\ bpSet = FALSE
    /\ mapToAckChan = <<>>
    /\ ackChans = [c \in CallIds |-> NoAckChan]
    /\ chSent = [c \in CallIds |-> <<>>]
    /\ calls = [c \in CallIds |-> IdleCall]
    /\ lastPut = <<>>
    /\ startPc = "none"
    /\ stopPc = "none"
    /\ engine = "none"
    /\ queue = <<>>
    /\ workers = [w \in WorkerIds |-> IdleWorker]
    /\ retries = 0
    /\ metrics = metricsClient
    /\ crashed = FALSE
    /\ indexerConcurrency = IndexerConcurrency

\* No call on the SQL shard store is made and its table is empty.
NoShardStore ==
    /\ shards = <<>>
    /\ shardCalls = <<>>

Init == NewProcessor(NoopClient) /\ NoShardStore

InitMetered == NewProcessor(CountingClient) /\ NoShardStore

\* ------------------------------------------------------------- ack channel

\* newAckChan for call c: a fresh channel, addedAt = now, startedAt zero.
newAckChan(c) == [ackChInternal |-> c, addedAt |-> c, startedAt |-> 0]

\* ackChan.start also resetting the channel field.
startAndClearChannel(heap, a) ==
    [heap EXCEPT ![a].startedAt = 1, ![a].ackChInternal = 0]

\* ackChan.start: startedAt = now.
start(heap, a) == [heap EXCEPT ![a].startedAt = 1]

\* done pushing into the channel the object was created with.
doneOnCreated(sent, heap, a, ack) ==
    [sent EXCEPT ![a] = Append(@, ack)]

\* ackChan.done: push ack into the object's current channel.
done(sent, heap, a, ack) ==
    [sent EXCEPT ![heap[a].ackChInternal] = Append(@, ack)]

\* ------------------------------------------------------------- ack map ops

\* The channel of the ticket the map holds for key k.
ChannelOfEntry(k) == ackChans[mapToAckChan[k]].ackChInternal

\* The mutator leaving the existing object's channel in place.
ReplaceExistingKeepChannel(heap, existing, new) ==
    [heap EXCEPT ![existing].addedAt = heap[new].addedAt,
                 ![existing].startedAt = heap[new].startedAt]

\* The mutator leaving the existing object's start time in place.
ReplaceExistingKeepStartedAt(heap, existing, new) ==
    [heap EXCEPT ![existing].addedAt = heap[new].addedAt,
                 ![existing].ackChInternal = heap[new].ackChInternal]

\* The mutator Add passes to PutOrDo: the existing object takes over the
\* fields of the new one.
ReplaceExisting(heap, existing, new) ==
    [heap EXCEPT ![existing].addedAt = heap[new].addedAt,
                 ![existing].startedAt = heap[new].startedAt,
                 ![existing].ackChInternal = heap[new].ackChInternal]

\* RemoveIf: the entry of key is removed when the predicate returned true.
RemoveIf(m, key, removed) ==
    IF key \in DOMAIN m /\ removed THEN [k \in DOMAIN m \ {key} |-> m[k]] ELSE m

\* A predicate that acks and returns false.
sendToAckChanPredicateFalse == FALSE

\* Line 1174: what the predicate sendToAckChan passes to RemoveIf returns
\* after it has acked.
sendToAckChanPredicate == TRUE

\* sendToAckChan acking and removing every entry of the map.
sendToAckChanAll(visibilityTaskKey, ack) ==
    /\ chSent' = [c \in DOMAIN chSent |->
                     IF \E k \in DOMAIN mapToAckChan : ChannelOfEntry(k) = c
                     THEN Append(chSent[c], ack) ELSE chSent[c]]
    /\ mapToAckChan' = <<>>

\* Lines 1165-1176: RemoveIf runs the predicate on the entry, if there is one.
sendToAckChan(visibilityTaskKey, ack) ==
    IF visibilityTaskKey \in DOMAIN mapToAckChan
    THEN /\ chSent' = done(chSent, ackChans, mapToAckChan[visibilityTaskKey], ack)
         /\ mapToAckChan' = RemoveIf(mapToAckChan, visibilityTaskKey,
                                     sendToAckChanPredicate)
    ELSE UNCHANGED <<chSent, mapToAckChan>>

\* ---------------------------------------------------------------- Start/Stop

\* Start without the CompareAndSwap on the status.
StartCASUnconditional ==
    /\ ~crashed
    /\ status' = "Started"
    /\ startPc' = "alloc"
    /\ UNCHANGED <<mapSet, bpSet, mapToAckChan, ackChans, chSent, calls, lastPut, stopPc,
                   engine, queue, workers, retries, metrics, crashed>>
    /\ UNCHANGED <<indexerConcurrency, shards, shardCalls>>

StartCAS ==
    /\ ~crashed
    /\ IF status = "Initialized"
       THEN /\ status' = "Started"
            /\ startPc' = "alloc"
       ELSE UNCHANGED <<status, startPc>>
    /\ UNCHANGED <<mapSet, bpSet, mapToAckChan, ackChans, chSent, calls, lastPut, stopPc,
                   engine, queue, workers, retries, metrics, crashed>>
    /\ UNCHANGED <<indexerConcurrency, shards, shardCalls>>

StartAllocMap ==
    /\ ~crashed
    /\ startPc = "alloc"
    /\ mapSet' = TRUE
    /\ mapToAckChan' = <<>>
    /\ startPc' = "run"
    /\ UNCHANGED <<status, bpSet, ackChans, chSent, calls, lastPut, stopPc, engine, queue,
                   workers, retries, metrics, crashed>>
    /\ UNCHANGED <<indexerConcurrency, shards, shardCalls>>

StartRunBulkProcessor ==
    /\ ~crashed
    /\ startPc = "run"
    /\ engine' = "running"
    /\ bpSet' = TRUE
    /\ startPc' = "done"
    /\ UNCHANGED <<status, mapSet, mapToAckChan, ackChans, chSent, calls, lastPut, stopPc,
                   queue, workers, retries, metrics, crashed>>
    /\ UNCHANGED <<indexerConcurrency, shards, shardCalls>>

\* Stop without the CompareAndSwap on the status.
StopCASUnconditional ==
    /\ ~crashed
    /\ status' = "Stopped"
    /\ stopPc' = "stopEngine"
    /\ UNCHANGED <<mapSet, bpSet, mapToAckChan, ackChans, chSent, calls, lastPut, startPc,
                   engine, queue, workers, retries, metrics, crashed>>
    /\ UNCHANGED <<indexerConcurrency, shards, shardCalls>>

\* Stop clearing the references without stopping the engine first.
StopCASThenClear ==
    /\ ~crashed
    /\ IF status = "Started"
       THEN /\ status' = "Stopped"
            /\ stopPc' = "clear"
       ELSE UNCHANGED <<status, stopPc>>
    /\ UNCHANGED <<mapSet, bpSet, mapToAckChan, ackChans, chSent, calls, lastPut, startPc,
                   engine, queue, workers, retries, metrics, crashed>>
    /\ UNCHANGED <<indexerConcurrency, shards, shardCalls>>

StopCAS ==
    /\ ~crashed
    /\ IF status = "Started"
       THEN /\ status' = "Stopped"
            /\ stopPc' = "stopEngine"
       ELSE UNCHANGED <<status, stopPc>>
    /\ UNCHANGED <<mapSet, bpSet, mapToAckChan, ackChans, chSent, calls, lastPut, startPc,
                   engine, queue, workers, retries, metrics, crashed>>
    /\ UNCHANGED <<indexerConcurrency, shards, shardCalls>>

EngineDrained ==
    /\ queue = <<>>
    /\ \A w \in WorkerIds : workers[w].phase = "idle"

\* p.bulkProcessor.Stop(): a nil engine reference is a nil dereference;
\* otherwise the call returns once the engine has drained.
StopBulkProcessor ==
    /\ ~crashed
    /\ stopPc = "stopEngine"
    /\ IF ~bpSet
       THEN /\ crashed' = TRUE
            /\ UNCHANGED <<engine, stopPc>>
       ELSE /\ EngineDrained
            /\ engine' = "stopped"
            /\ stopPc' = "clear"
            /\ UNCHANGED crashed
    /\ UNCHANGED <<status, mapSet, bpSet, mapToAckChan, ackChans, chSent, calls, lastPut,
                   startPc, queue, workers, retries, metrics>>
    /\ UNCHANGED <<indexerConcurrency, shards, shardCalls>>

StopClear ==
    /\ ~crashed
    /\ stopPc = "clear"
    /\ mapSet' = FALSE
    /\ bpSet' = FALSE
    /\ stopPc' = "done"
    /\ UNCHANGED <<status, mapToAckChan, ackChans, chSent, calls, lastPut, startPc, engine,
                   queue, workers, retries, metrics, crashed>>
    /\ UNCHANGED <<indexerConcurrency, shards, shardCalls>>

\* ---------------------------------------------------------------------- Add

\* Lines 1035-1037: the new ackChan, the channel to return, and the load of
\* p.mapToAckChan, which is not synchronised with Start and Stop: PutOrDo
\* then runs on the map that was loaded, or on nil.
AddBegin(c, request, key) ==
    /\ ~crashed
    /\ calls[c].pc = "idle"
    /\ \A b \in CallIds : b < c => calls[b].pc # "idle"
    /\ ackChans' = [ackChans EXCEPT ![c] = newAckChan(c)]
    /\ calls' = [calls EXCEPT ![c] =
                    [@ EXCEPT !.pc = "put", !.request = request,
                              !.visibilityTaskKey = key, !.retCh = c,
                              !.mapLoaded = mapSet]]
    /\ UNCHANGED <<status, mapSet, bpSet, mapToAckChan, chSent, lastPut, startPc,
                   stopPc, engine, queue, workers, retries, metrics, crashed>>
    /\ UNCHANGED <<indexerConcurrency, shards, shardCalls>>

\* The mutator replacing the fields before it nacks.
AddMutatorReplaceFirst(existing, new) ==
    /\ ackChans' = ReplaceExisting(ackChans, existing, new)
    /\ chSent' = done(chSent, ackChans', existing, FALSE)

\* The mutator acking the existing ticket.
AddMutatorAcks(existing, new) ==
    /\ chSent' = done(chSent, ackChans, existing, TRUE)
    /\ ackChans' = ReplaceExisting(ackChans, existing, new)

\* The mutator of PutOrDo, run on the existing object under the stripe lock.
AddMutator(existing, new) ==
    /\ chSent' = done(chSent, ackChans, existing, FALSE)
    /\ ackChans' = ReplaceExisting(ackChans, existing, new)

\* Add without the isDup test.
NextAfterPutAlways(isDup) == "enqueue"

\* Lines 1055-1057: the request goes to the engine unless it is a duplicate.
NextAfterPut(isDup) == IF ~isDup THEN "enqueue" ELSE "return"

\* Add testing the status where the code dereferences the map.
AddPutOrDoStatusChecked(c) ==
    /\ ~crashed
    /\ calls[c].pc = "put"
    /\ IF status # "Started"
       THEN /\ crashed' = TRUE
            /\ calls' = [calls EXCEPT ![c].pc = "panic"]
            /\ UNCHANGED <<mapToAckChan, ackChans, chSent, lastPut>>
       ELSE LET key == calls[c].visibilityTaskKey
            IN  /\ UNCHANGED crashed
                /\ lastPut' = (key :> c) @@ lastPut
                /\ IF key \in DOMAIN mapToAckChan
                   THEN /\ AddMutator(mapToAckChan[key], c)
                        /\ UNCHANGED mapToAckChan
                        /\ calls' = [calls EXCEPT ![c].isDup = TRUE,
                                                  ![c].pc = NextAfterPut(TRUE)]
                   ELSE /\ mapToAckChan' = (key :> c) @@ mapToAckChan
                        /\ UNCHANGED <<ackChans, chSent>>
                        /\ calls' = [calls EXCEPT ![c].isDup = FALSE,
                                                  ![c].pc = NextAfterPut(FALSE)]
    /\ UNCHANGED <<status, mapSet, bpSet, startPc, stopPc, engine, queue, workers,
                   retries, metrics>>
    /\ UNCHANGED <<indexerConcurrency, shards, shardCalls>>

\* Lines 1037-1054: PutOrDo on the ack map.
AddPutOrDo(c) ==
    /\ ~crashed
    /\ calls[c].pc = "put"
    /\ IF ~calls[c].mapLoaded
       THEN /\ crashed' = TRUE
            /\ calls' = [calls EXCEPT ![c].pc = "panic"]
            /\ UNCHANGED <<mapToAckChan, ackChans, chSent, lastPut>>
       ELSE LET key == calls[c].visibilityTaskKey
            IN  /\ UNCHANGED crashed
                /\ lastPut' = (key :> c) @@ lastPut
                /\ IF key \in DOMAIN mapToAckChan
                   THEN /\ AddMutator(mapToAckChan[key], c)
                        /\ UNCHANGED mapToAckChan
                        /\ calls' = [calls EXCEPT ![c].isDup = TRUE,
                                                  ![c].pc = NextAfterPut(TRUE)]
                   ELSE /\ mapToAckChan' = (key :> c) @@ mapToAckChan
                        /\ UNCHANGED <<ackChans, chSent>>
                        /\ calls' = [calls EXCEPT ![c].isDup = FALSE,
                                                  ![c].pc = NextAfterPut(FALSE)]
    /\ UNCHANGED <<status, mapSet, bpSet, startPc, stopPc, engine, queue, workers,
                   retries, metrics>>
    /\ UNCHANGED <<indexerConcurrency, shards, shardCalls>>

\* Lines 1055-1057: p.bulkProcessor.Add(request).
AddBulkProcessorAdd(c) ==
    /\ ~crashed
    /\ calls[c].pc = "enqueue"
    /\ IF ~bpSet
       THEN /\ crashed' = TRUE
            /\ calls' = [calls EXCEPT ![c].pc = "panic"]
            /\ UNCHANGED queue
       ELSE /\ queue' = Append(queue, calls[c].request)
            /\ calls' = [calls EXCEPT ![c].pc = "return", ![c].handed = @ + 1]
            /\ UNCHANGED crashed
    /\ UNCHANGED <<status, mapSet, bpSet, mapToAckChan, ackChans, chSent, lastPut,
                   startPc, stopPc, engine, workers, retries, metrics>>
    /\ UNCHANGED <<indexerConcurrency, shards, shardCalls>>

\* Add returning the channel field of its ackChan object, read at return.
AddReturnValueFromAckCh(c) == ackChans[c].ackChInternal

\* Line 1058: return retCh.
AddReturnValue(c) == calls[c].retCh

AddReturn(c) ==
    /\ ~crashed
    /\ calls[c].pc = "return"
    /\ calls' = [calls EXCEPT ![c].pc = "done", ![c].returned = AddReturnValue(c)]
    /\ UNCHANGED <<status, mapSet, bpSet, mapToAckChan, ackChans, chSent, lastPut, startPc,
                   stopPc, engine, queue, workers, retries, metrics, crashed>>
    /\ UNCHANGED <<indexerConcurrency, shards, shardCalls>>

\* ------------------------------------------------------------------- engine

Min(a, b) == IF a < b THEN a ELSE b

\* A flusher takes the head of the buffer as its batch and calls the before
\* hook.
Flush(w) ==
    /\ ~crashed
    /\ engine = "running"
    /\ workers[w].phase = "idle"
    /\ queue # <<>>
    /\ LET n == Min(Len(queue), BulkActions)
       IN  /\ workers' = [workers EXCEPT ![w] =
                  [IdleWorker EXCEPT !.phase = "before", !.i = 1,
                                     !.requests = SubSeq(queue, 1, n)]]
           /\ queue' = SubSeq(queue, n + 1, Len(queue))
    /\ UNCHANGED <<status, mapSet, bpSet, mapToAckChan, ackChans, chSent, calls, lastPut,
                   startPc, stopPc, engine, retries, metrics, crashed>>
    /\ UNCHANGED <<indexerConcurrency, shards, shardCalls>>

HasRetryable(outcome) ==
    \E n \in DOMAIN outcome : outcome[n] # NoItem /\ IsRetryableStatus(outcome[n].Status)

\* The requests of a committed batch that the engine commits again: those
\* whose own response item carries a retryable status.
RECURSIVE RetriedRequests(_, _, _)
RetriedRequests(requests, outcome, n) ==
    IF n > Len(requests) THEN <<>>
    ELSE (IF outcome[n] # NoItem /\ IsRetryableStatus(outcome[n].Status)
          THEN << requests[n] >> ELSE <<>>)
         \o RetriedRequests(requests, outcome, n + 1)

\* The search engine answers the bulk: a top-level error, or one outcome
\* per request, out of outcomes. Requests whose item has a retryable status
\* go back to the buffer; then the after hook runs.
CommitWith(w, outcomes) ==
    /\ ~crashed
    /\ workers[w].phase = "commit"
    /\ \/ /\ retries < MaxRetries
          /\ retries' = retries + 1
          /\ workers' = [workers EXCEPT ![w].phase = "after", ![w].i = 1,
                                        ![w].err = "retryable"]
          /\ UNCHANGED queue
       \/ /\ workers' = [workers EXCEPT ![w].phase = "after", ![w].i = 1,
                                        ![w].err = "permanent"]
          /\ UNCHANGED <<retries, queue>>
       \/ \E outcome \in [1..Len(workers[w].requests) -> outcomes] :
            /\ HasRetryable(outcome) => retries < MaxRetries
            /\ retries' = IF HasRetryable(outcome) THEN retries + 1 ELSE retries
            /\ workers' = [workers EXCEPT ![w].phase = "after", ![w].i = 1,
                                          ![w].err = "", ![w].outcome = outcome]
            /\ queue' = queue \o RetriedRequests(workers[w].requests, outcome, 1)
    /\ UNCHANGED <<status, mapSet, bpSet, mapToAckChan, ackChans, chSent, calls, lastPut,
                   startPc, stopPc, engine, metrics, crashed>>
    /\ UNCHANGED <<indexerConcurrency, shards, shardCalls>>

Commit(w) == CommitWith(w, ItemOutcomes)

\* The worker once a hook has handled request i of its batch: the next
\* request, or past the hook. After the after hook a batch that failed with
\* a retryable error is committed again, with a new before/after pair.
WorkerAdvance(worker) ==
    IF worker.i < Len(worker.requests) THEN [worker EXCEPT !.i = @ + 1]
    ELSE IF worker.phase = "before" THEN [worker EXCEPT !.phase = "commit", !.i = 1]
    ELSE IF IsRetryableError(worker.err)
         THEN [worker EXCEPT !.phase = "before", !.i = 1, !.err = ""]
    ELSE IdleWorker

\* -------------------------------------------------------------------- hooks

\* bulkBeforeAction counting one per batch.
requestsCountedPerBatch(worker) == IF worker.i = 1 THEN 1 ELSE 0

\* Line 1063: what bulkBeforeAction adds to the requests counter, on entry:
\* len(requests).
requestsCounted(worker) == IF worker.i = 1 THEN Len(worker.requests) ELSE 0

\* bulkBeforeAction, one iteration of its loop (lines 1066-1079); the first
\* iteration follows the counters of lines 1063-1064.
bulkBeforeActionStep(w) ==
    /\ ~crashed
    /\ workers[w].phase = "before"
    /\ LET request == workers[w].requests[workers[w].i]
           visibilityTaskKey == extractVisibilityTaskKey(request)
       IN  /\ metrics' = AddCounters(metrics, requestsCounted(workers[w]),
                  0, extractVisibilityTaskKeyCorrupted(request), 0)
           /\ ackChans' = IF visibilityTaskKey # ""
                             /\ visibilityTaskKey \in DOMAIN mapToAckChan
                          THEN start(ackChans, mapToAckChan[visibilityTaskKey])
                          ELSE ackChans
    /\ workers' = [workers EXCEPT ![w] = WorkerAdvance(@)]
    /\ UNCHANGED <<status, mapSet, bpSet, mapToAckChan, chSent, calls, lastPut, startPc,
                   stopPc, engine, queue, retries, crashed>>
    /\ UNCHANGED <<indexerConcurrency, shards, shardCalls>>

\* The error branch nacking whatever the error is.
nacksOnErrorAlways(isRetryable) == TRUE

\* Line 1094: the error branch of bulkAfterAction nacks the requests of
\* the batch only when the error is not retryable.
nacksOnError(isRetryable) == ~isRetryable

\* bulkAfterAction with a top-level error, one iteration of its loop
\* (lines 1090-1101).
bulkAfterActionErrStep(w) ==
    /\ ~crashed
    /\ workers[w].phase = "after"
    /\ workers[w].err # ""
    /\ LET request == workers[w].requests[workers[w].i]
           isRetryable == IsRetryableError(workers[w].err)
           visibilityTaskKey == extractVisibilityTaskKey(request)
       IN  IF nacksOnError(isRetryable)
           THEN /\ metrics' = AddCounters(metrics, 0, 1,
                                   extractVisibilityTaskKeyCorrupted(request), 0)
                /\ IF visibilityTaskKey = ""
                   THEN UNCHANGED <<chSent, mapToAckChan>>
                   ELSE sendToAckChan(visibilityTaskKey, FALSE)
           ELSE /\ metrics' = AddCounters(metrics, 0, 1, 0, 0)
                /\ UNCHANGED <<chSent, mapToAckChan>>
    /\ workers' = [workers EXCEPT ![w] = WorkerAdvance(@)]
    /\ UNCHANGED <<status, mapSet, bpSet, ackChans, calls, lastPut, startPc, stopPc, engine,
                   queue, retries, crashed>>
    /\ UNCHANGED <<indexerConcurrency, shards, shardCalls>>

\* The switch of bulkAfterAction without its case for statuses that are
\* not retryable.
ClassifyWithoutFailureCase(request, responseIndex) ==
    IF extractVisibilityTaskKey(request) = "" THEN "skip"
    ELSE IF extractDocID(request) \notin DOMAIN responseIndex THEN "missing"
    ELSE IF isSuccess(responseIndex[extractDocID(request)]) THEN "success"
    ELSE "retry"

\* bulkAfterAction leaving a request without a response item to the engine.
ClassifyWithoutMissingCase(request, responseIndex) ==
    IF extractVisibilityTaskKey(request) = "" THEN "skip"
    ELSE IF extractDocID(request) \notin DOMAIN responseIndex THEN "retry"
    ELSE IF isSuccess(responseIndex[extractDocID(request)]) THEN "success"
    ELSE IF ~IsRetryableStatus(responseIndex[extractDocID(request)].Status) THEN "failure"
    ELSE "retry"

\* bulkAfterAction looking for the response item of a request before it
\* looks at the key.
ClassifyKeyLast(request, responseIndex) ==
    IF extractDocID(request) \notin DOMAIN responseIndex THEN "missing"
    ELSE IF extractVisibilityTaskKey(request) = "" THEN "skip"
    ELSE IF isSuccess(responseIndex[extractDocID(request)]) THEN "success"
    ELSE IF ~IsRetryableStatus(responseIndex[extractDocID(request)].Status) THEN "failure"
    ELSE "retry"

\* How bulkAfterAction classifies a request against the response index:
\* "skip" (no key), "missing", "success", "failure" or "retry".
Classify(request, responseIndex) ==
    IF extractVisibilityTaskKey(request) = "" THEN "skip"
    ELSE IF extractDocID(request) \notin DOMAIN responseIndex THEN "missing"
    ELSE IF isSuccess(responseIndex[extractDocID(request)]) THEN "success"
    ELSE IF ~IsRetryableStatus(responseIndex[extractDocID(request)].Status) THEN "failure"
    ELSE "retry"

\* The response index bulkAfterAction builds for the batch of a worker.
ResponseIndexOf(worker) ==
    buildResponseIndex(ResponseItems(worker.requests, worker.outcome, 1))

\* bulkAfterAction with a bulk response, one iteration of its loop
\* (lines 1106-1146).
bulkAfterActionStep(w) ==
    /\ ~crashed
    /\ workers[w].phase = "after"
    /\ workers[w].err = ""
    /\ LET request == workers[w].requests[workers[w].i]
           visibilityTaskKey == extractVisibilityTaskKey(request)
           class == Classify(request, ResponseIndexOf(workers[w]))
       IN  /\ metrics' = AddCounters(metrics, 0,
                  IF class = "failure" THEN 1 ELSE 0,
                  extractVisibilityTaskKeyCorrupted(request)
                      + (IF class = "skip" THEN 0 ELSE extractDocIDCorrupted(request))
                      + (IF class = "missing" THEN 1 ELSE 0),
                  IF class = "retry" THEN 1 ELSE 0)
           /\ CASE class = "missing" -> sendToAckChan(visibilityTaskKey, FALSE)
                [] class = "success" -> sendToAckChan(visibilityTaskKey, TRUE)
                [] class = "failure" -> sendToAckChan(visibilityTaskKey, FALSE)
                [] OTHER -> UNCHANGED <<chSent, mapToAckChan>>
    /\ workers' = [workers EXCEPT ![w] = WorkerAdvance(@)]
    /\ UNCHANGED <<status, mapSet, bpSet, ackChans, calls, lastPut, startPc, stopPc, engine,
                   queue, retries, crashed>>
    /\ UNCHANGED <<indexerConcurrency, shards, shardCalls>>

\* ------------------------------------------------------------ specification

Next ==
    \/ StartCAS
    \/ StartAllocMap
    \/ StartRunBulkProcessor
    \/ StopCAS
    \/ StopBulkProcessor
    \/ StopClear
    \/ \E c \in CallIds : \E in \in AddInputs : AddBegin(c, in[1], in[2])
    \/ \E c \in CallIds : AddPutOrDo(c)
    \/ \E c \in CallIds : AddBulkProcessorAdd(c)
    \/ \E c \in CallIds : AddReturn(c)
    \/ \E w \in WorkerIds : Flush(w)
    \/ \E w \in WorkerIds : bulkBeforeActionStep(w)
    \/ \E w \in WorkerIds : Commit(w)
    \/ \E w \in WorkerIds : bulkAfterActionErrStep(w)
    \/ \E w \in WorkerIds : bulkAfterActionStep(w)

Spec == Init /\ [][Next]_vars

SpecMetered == InitMetered /\ [][Next]_vars

\* ------------------------------------------------- a processor under load

\* An index request whose body has no VisibilityTaskKey field.
NoKeyRequest(id) == [RequestType |-> "index", ID |-> id, Doc |-> <<>>]

\* Request and key of Add calls that have returned, in call order: alone,
\* two tasks of one workflow run sharing the document, three tasks of
\* three runs, and a request without the key field next to a sound one.
SharedDocBatch ==
    << <<IndexRequest("d1", "k1"), "k1">>, <<DeleteRequest("d1"), "d1">> >>

Batches ==
    { << <<IndexRequest("d1", "k1"), "k1">> >>,
      SharedDocBatch,
      << <<IndexRequest("d1", "k1"), "k1">>, <<IndexRequest("d2", "k2"), "k2">>,
         <<IndexRequest("d3", "k3"), "k3">> >>,
      << <<IndexRequest("d1", "k1"), "k1">>, <<NoKeyRequest("d2"), "k2">> >> }

\* The statuses of ItemOutcomes and those around the bounds isSuccess
\* tests: 200, 299, 300, 409 and a 404 without an error.
AllItemOutcomes ==
    ItemOutcomes \cup
    { [Status |-> 200, ErrorType |-> ""],
      [Status |-> 299, ErrorType |-> ""],
      [Status |-> 300, ErrorType |-> ""],
      [Status |-> 404, ErrorType |-> ""],
      [Status |-> 404, ErrorType |-> "document_missing_exception"],
      [Status |-> 409, ErrorType |-> "version_conflict_engine_exception"] }

\* The ackChan the n-th of the earlier Add calls created.
EarlierCall(n) == MaxAdds + n

\* The processor after Start and after one Add per element of batch, each
\* with a key of its own and returned before the next began: an entry and
\* an empty channel per key, the requests buffered in the engine in call
\* order, nothing flushed yet.
LoadedWith(concurrency, metricsClient, batch) ==
    /\ status = "Started"
    /\ mapSet = TRUE
    /\ bpSet = TRUE
    /\ mapToAckChan = [k \in {batch[n][2] : n \in DOMAIN batch} |->
                          EarlierCall(CHOOSE n \in DOMAIN batch : batch[n][2] = k)]
    /\ ackChans = [c \in 1..EarlierCall(Len(batch)) |->
                      IF c \in CallIds THEN NoAckChan ELSE newAckChan(c)]
    /\ chSent = [c \in 1..EarlierCall(Len(batch)) |-> <<>>]
    /\ calls = [c \in CallIds |-> IdleCall]
    /\ lastPut = mapToAckChan
    /\ startPc = "done"
    /\ stopPc = "none"
    /\ engine = "running"
    /\ queue = [n \in DOMAIN batch |-> batch[n][1]]
    /\ workers = [w \in WorkerIds |-> IdleWorker]
    /\ retries = 0
    /\ metrics = metricsClient
    /\ crashed = FALSE
    /\ indexerConcurrency = concurrency
    /\ NoShardStore

\* The same with the concurrency NewProcessor takes from the configuration.
Loaded(metricsClient, batch) ==
    LoadedWith(IndexerConcurrency, metricsClient, batch)

InitBatch == \E batch \in Batches : Loaded(CountingClient, batch)

\* The engine and the hooks working off what the earlier Adds buffered.
NextBatch ==
    \/ \E w \in WorkerIds : Flush(w)
    \/ \E w \in WorkerIds : bulkBeforeActionStep(w)
    \/ \E w \in WorkerIds : CommitWith(w, AllItemOutcomes)
    \/ \E w \in WorkerIds : bulkAfterActionErrStep(w)
    \/ \E w \in WorkerIds : bulkAfterActionStep(w)

SpecBatch == InitBatch /\ [][NextBatch]_vars

InitLoaded == Loaded(NoopClient, SharedDocBatch)

\* One caller making further Add calls, one after the other, while the
\* engine and the hooks work off what the earlier ones buffered.
NextLoaded ==
    \/ /\ \A b \in CallIds : calls[b].pc \in {"idle", "done"}
       /\ \E c \in CallIds : \E in \in AddInputs : AddBegin(c, in[1], in[2])
    \/ \E c \in CallIds : AddPutOrDo(c)
    \/ \E c \in CallIds : AddBulkProcessorAdd(c)
    \/ \E c \in CallIds : AddReturn(c)
    \/ \E w \in WorkerIds : Flush(w)
    \/ \E w \in WorkerIds : bulkBeforeActionStep(w)
    \/ \E w \in WorkerIds : Commit(w)
    \/ \E w \in WorkerIds : bulkAfterActionErrStep(w)
    \/ \E w \in WorkerIds : bulkAfterActionStep(w)

SpecLoaded == InitLoaded /\ [][NextLoaded]_vars

\* Batches for the key extraction: an update and a delete; an index request
\* whose document is no JSON object next to a sound one; a request whose
\* Source() fails and a delete without an id; a request whose line is no
\* JSON and an index request without the key field.
KeyBatches ==
    { << <<UpdateRequest("d1", "k1"), "k1">>, <<DeleteRequest("d2"), "d2">> >>,
      << <<RawDocRequest("d1"), "k1">>, <<IndexRequest("d2", "k2"), "k2">> >>,
      << <<BrokenRequest, "k1">>, <<DeleteRequest(""), "k2">> >>,
      << <<RawRequest, "k1">>, <<NoKeyRequest("d2"), "k2">> >> }

InitKeys == \E batch \in KeyBatches : Loaded(CountingClient, batch)

SpecKeys == InitKeys /\ [][NextBatch]_vars

\* ----------------------------------------------------------- sqlShardStore

\* The variables of the processor.
processorVars ==
    <<status, mapSet, bpSet, mapToAckChan, ackChans, chSent, calls, lastPut, startPc,
      stopPc, engine, queue, workers, retries, metrics, crashed, indexerConcurrency>>

ShardCallIds == 1..MaxShardCalls

ShardIDs == {1}

RangeIDs == 1..MaxRangeID

\* InternalCreateShardRequest and InternalUpdateShardRequest of call u; a
\* create request has no PreviousRangeID. Each call brings shard data of
\* its own.
ShardRequests(u) ==
    [ShardID : ShardIDs, RangeID : RangeIDs, PreviousRangeID : RangeIDs, Data : {u}]

\* sqlplugin.ShardsRow without the key.
ShardsRow(request) == [RangeID |-> request.RangeID, Data |-> request.Data]

\* A call on the store: the method, its position, its request, the error of
\* the GetShard it made and the error it returned ("" while it runs, "nil"
\* for none).
IdleShardCall ==
    [op |-> "", pc |-> "idle",
     request |-> [ShardID |-> 1, RangeID |-> 1, PreviousRangeID |-> 1, Data |-> 0],
     getErr |-> "", result |-> ""]

\* The transactions holding the write lock on the row of a shard: from
\* WriteLockShards to the commit or the rollback.
LockHolders(shardID) ==
    {u \in ShardCallIds : /\ shardCalls[u].pc \in {"update", "commit"}
                          /\ shardCalls[u].request.ShardID = shardID}

\* The store before any call: an empty table, or a shard created earlier.
InitShards ==
    /\ NewProcessor(NoopClient)
    /\ shards \in {<<>>} \union {(1 :> [RangeID |-> r, Data |-> 0]) : r \in RangeIDs}
    /\ shardCalls = [u \in ShardCallIds |-> IdleShardCall]

\* Lines 2599-2612 of GetShard: the error by what SelectFromShards returned.
GetShardError(found, dbErr) ==
    IF dbErr THEN "Internal"
    ELSE IF found THEN "nil" ELSE "NotFound"

\* CreateShard going on to the insert whatever GetShard returned.
CreateShardInsertsAlways(getErr) == TRUE

\* Lines 2573-2579: CreateShard goes on to the insert unless GetShard
\* returned no error.
CreateShardInserts(getErr) == getErr # "nil"

CreateShardBegin(u, request) ==
    /\ shardCalls[u].pc = "idle"
    /\ request.PreviousRangeID = 1
    /\ shardCalls' = [shardCalls EXCEPT ![u] =
                         [IdleShardCall EXCEPT !.op = "CreateShard", !.pc = "get",
                                               !.request = request]]
    /\ UNCHANGED <<processorVars, shards>>

\* Lines 2573-2579: the GetShard of CreateShard and the test of its error.
CreateShardGetShard(u) ==
    /\ shardCalls[u].pc = "get"
    /\ \E dbErr \in BOOLEAN :
         LET err == GetShardError(shardCalls[u].request.ShardID \in DOMAIN shards, dbErr)
         IN  shardCalls' = [shardCalls EXCEPT
                 ![u].getErr = err,
                 ![u].pc = IF CreateShardInserts(err) THEN "insert" ELSE "done",
                 ![u].result = IF CreateShardInserts(err) THEN ""
                               ELSE "ShardAlreadyExistError"]
    /\ UNCHANGED <<processorVars, shards>>

\* Lines 2581-2592: InsertIntoShards; the table takes one row per ShardID.
CreateShardInsert(u) ==
    /\ shardCalls[u].pc = "insert"
    /\ LET request == shardCalls[u].request
       IN  \E dbErr \in BOOLEAN :
             IF dbErr \/ request.ShardID \in DOMAIN shards
             THEN /\ shardCalls' = [shardCalls EXCEPT ![u].pc = "done",
                                                     ![u].result = "Internal"]
                  /\ UNCHANGED shards
             ELSE /\ shards' = (request.ShardID :> ShardsRow(request)) @@ shards
                  /\ shardCalls' = [shardCalls EXCEPT ![u].pc = "done",
                                                     ![u].result = "nil"]
    /\ UNCHANGED processorVars

\* Line 2620: txExecute opens the transaction.
UpdateShardBegin(u, request) ==
    /\ shardCalls[u].pc = "idle"
    /\ shardCalls' = [shardCalls EXCEPT ![u] =
                         [IdleShardCall EXCEPT !.op = "UpdateShard", !.pc = "lock",
                                               !.request = request]]
    /\ UNCHANGED <<processorVars, shards>>

\* lockShard accepting any stored range ID.
lockShardUnfenced(found, rangeID, oldRangeID, dbErr) ==
    IF dbErr THEN "Internal"
    ELSE IF ~found THEN "Internal"
    ELSE "nil"

\* Lines 2659-2672 of lockShard: the error by what WriteLockShards returned.
lockShard(found, rangeID, oldRangeID, dbErr) ==
    IF dbErr THEN "Internal"
    ELSE IF ~found THEN "Internal"
    ELSE IF rangeID # oldRangeID THEN "ShardOwnershipLostError"
    ELSE "nil"

\* Lines 2621-2627: lockShard in the transaction. WriteLockShards waits for
\* the lock on the row; an error of lockShard ends the transaction.
UpdateShardLockShard(u) ==
    /\ shardCalls[u].pc = "lock"
    /\ LET request == shardCalls[u].request
           found == request.ShardID \in DOMAIN shards
       IN  /\ LockHolders(request.ShardID) = {}
           /\ \E dbErr \in BOOLEAN :
                LET err == lockShard(found,
                                     IF found THEN shards[request.ShardID].RangeID ELSE 0,
                                     request.PreviousRangeID, dbErr)
                IN  shardCalls' = [shardCalls EXCEPT
                        ![u].pc = IF err = "nil" THEN "update" ELSE "done",
                        ![u].result = IF err = "nil" THEN "" ELSE err]
    /\ UNCHANGED <<processorVars, shards>>

\* Lines 2628-2643: UpdateShards in the transaction and the test of the
\* rows affected; the row changes for the others when the transaction
\* commits.
UpdateShardUpdateShards(u) ==
    /\ shardCalls[u].pc = "update"
    /\ \E dbErr \in BOOLEAN :
         LET rowsAffected == IF shardCalls[u].request.ShardID \in DOMAIN shards
                             THEN 1 ELSE 0
         IN  shardCalls' = [shardCalls EXCEPT
                 ![u].pc = IF dbErr \/ rowsAffected # 1 THEN "done" ELSE "commit",
                 ![u].result = IF dbErr \/ rowsAffected # 1 THEN "Internal" ELSE ""]
    /\ UNCHANGED <<processorVars, shards>>

\* txExecute commits when the function returned no error.
UpdateShardCommit(u) ==
    /\ shardCalls[u].pc = "commit"
    /\ LET request == shardCalls[u].request
       IN  shards' = [shards EXCEPT ![request.ShardID] = ShardsRow(request)]
    /\ shardCalls' = [shardCalls EXCEPT ![u].pc = "done", ![u].result = "nil"]
    /\ UNCHANGED processorVars

NextShards ==
    \/ \E u \in ShardCallIds : \E request \in ShardRequests(u) : CreateShardBegin(u, request)
    \/ \E u \in ShardCallIds : CreateShardGetShard(u)
    \/ \E u \in ShardCallIds : CreateShardInsert(u)
    \/ \E u \in ShardCallIds : \E request \in ShardRequests(u) : UpdateShardBegin(u, request)
    \/ \E u \in ShardCallIds : UpdateShardLockShard(u)
    \/ \E u \in ShardCallIds : UpdateShardUpdateShards(u)
    \/ \E u \in ShardCallIds : UpdateShardCommit(u)

SpecShards == InitShards /\ [][NextShards]_vars

\* ------------------------------------------------------ the striped ack map

\* The largest value of indexerConcurrency the processor is built with.
MaxConcurrency == 3

\* A key as the map hands it to hashFn, an interface{} value: a string, or
\* a value of another type.
StringKey(id) == [isString |-> TRUE, id |-> id]

NonStringKey == [isString |-> FALSE, id |-> ""]

\* The keys of the model's requests, the empty string, and a key that is
\* no string.
HashKeys == {StringKey(id) : id \in {"", "k1", "k2", "k3", "d1", "d2"}}
                \cup {NonStringKey}

\* farm.Hash32 of the bytes of a key: a fixed uint32 per key. "k1" and
\* "d1" differ modulo 2 and agree modulo 3; "k3" has the largest value of
\* the integers at hand.
Hash32(idBytes) ==
    CASE idBytes = "k1" -> 4
      [] idBytes = "d1" -> 7
      [] idBytes = "k2" -> 1000003
      [] idBytes = "d2" -> 65536
      [] idBytes = "k3" -> 2147483647
      [] OTHER -> 0

\* hashFn returning the hash as it is.
hashFnWholeHash(key) ==
    IF ~key.isString THEN 0 ELSE Hash32(key.id)

\* Lines 1023-1031: hashFn.
hashFn(key) ==
    IF ~key.isString THEN 0 ELSE Hash32(key.id) % indexerConcurrency

\* The stripe of the map that holds a string key.
StripeOf(key) == hashFn(StringKey(key))

\* The statements of Add that run under the stripe lock as far as the first
\* of the mutator.
AddMutatorPcsNackOnly == {"mutDone"}

\* Lines 1038-1053: the positions of an Add call inside the mutator, which
\* PutOrDo runs under the stripe lock of the key.
AddMutatorPcs == {"mutDone", "mutAddedAt", "mutStartedAt", "mutChannel"}

\* Lines 1071-1077 and 1167-1175: the positions of a hook inside the
\* function it passes to GetAndDo and inside the predicate it passes to
\* RemoveIf.
HookLockedPhases == {"beforeLocked", "afterLocked"}

\* The key of the request a hook is at.
WorkerKey(w) == extractVisibilityTaskKey(workers[w].requests[workers[w].i])

CallHoldsLock(c, key) ==
    calls[c].pc \in AddMutatorPcs /\ calls[c].visibilityTaskKey = key

WorkerHoldsLock(w, key) ==
    workers[w].phase \in HookLockedPhases /\ WorkerKey(w) = key

\* Some compound operation holds the lock of the stripe.
StripeHeld(stripe) ==
    \/ \E c \in CallIds :
          /\ calls[c].pc \in AddMutatorPcs
          /\ StripeOf(calls[c].visibilityTaskKey) = stripe
    \/ \E w \in WorkerIds :
          /\ workers[w].phase \in HookLockedPhases
          /\ StripeOf(WorkerKey(w)) = stripe

\* The processor of Loaded with one stripe for all keys, or with the two
\* keys of the batch on a stripe each.
InitStripes ==
    \E concurrency \in 1..IndexerConcurrency :
        LoadedWith(concurrency, NoopClient, SharedDocBatch)

\* Lines 1037-1054, PutOrDo as far as the map's own part: it takes the lock
\* of the key's stripe, stores the new object when the key is absent and
\* otherwise calls the mutator on the object it holds.
AddPutOrDoLock(c) ==
    /\ ~crashed
    /\ calls[c].pc = "put"
    /\ IF ~calls[c].mapLoaded
       THEN /\ crashed' = TRUE
            /\ calls' = [calls EXCEPT ![c].pc = "panic"]
            /\ UNCHANGED <<mapToAckChan, lastPut>>
       ELSE LET key == calls[c].visibilityTaskKey
            IN  /\ ~StripeHeld(StripeOf(key))
                /\ UNCHANGED crashed
                /\ lastPut' = (key :> c) @@ lastPut
                /\ IF key \in DOMAIN mapToAckChan
                   THEN /\ UNCHANGED mapToAckChan
                        /\ calls' = [calls EXCEPT ![c].pc = "mutDone",
                                         ![c].existing = mapToAckChan[key]]
                   ELSE /\ mapToAckChan' = (key :> c) @@ mapToAckChan
                        /\ calls' = [calls EXCEPT ![c].isDup = FALSE,
                                                  ![c].pc = NextAfterPut(FALSE)]
    /\ UNCHANGED <<status, mapSet, bpSet, ackChans, chSent, startPc, stopPc, engine,
                   queue, workers, retries, metrics>>
    /\ UNCHANGED <<indexerConcurrency, shards, shardCalls>>

\* Line 1046: ackChExisting.done(false, p.metricsClient).
AddMutatorDone(c) ==
    /\ ~crashed
    /\ calls[c].pc = "mutDone"
    /\ chSent' = done(chSent, ackChans, calls[c].existing, FALSE)
    /\ calls' = [calls EXCEPT ![c].pc = "mutAddedAt"]
    /\ UNCHANGED <<status, mapSet, bpSet, mapToAckChan, ackChans, lastPut, startPc,
                   stopPc, engine, queue, workers, retries, metrics, crashed>>
    /\ UNCHANGED <<indexerConcurrency, shards, shardCalls>>

\* Line 1050: ackChExisting.addedAt = ackCh.addedAt.
AddMutatorAddedAt(c) ==
    /\ ~crashed
    /\ calls[c].pc = "mutAddedAt"
    /\ ackChans' = [ackChans EXCEPT ![calls[c].existing].addedAt = ackChans[c].addedAt]
    /\ calls' = [calls EXCEPT ![c].pc = "mutStartedAt"]
    /\ UNCHANGED <<status, mapSet, bpSet, mapToAckChan, chSent, lastPut, startPc,
                   stopPc, engine, queue, workers, retries, metrics, crashed>>
    /\ UNCHANGED <<indexerConcurrency, shards, shardCalls>>

\* Line 1051: ackChExisting.startedAt = ackCh.startedAt.
AddMutatorStartedAt(c) ==
    /\ ~crashed
    /\ calls[c].pc = "mutStartedAt"
    /\ ackChans' = [ackChans EXCEPT ![calls[c].existing].startedAt =
                                        ackChans[c].startedAt]
    /\ calls' = [calls EXCEPT ![c].pc = "mutChannel"]
    /\ UNCHANGED <<status, mapSet, bpSet, mapToAckChan, chSent, lastPut, startPc,
                   stopPc, engine, queue, workers, retries, metrics, crashed>>
    /\ UNCHANGED <<indexerConcurrency, shards, shardCalls>>

\* Lines 1052-1054: ackChExisting.ackChInternal = ackCh.ackChInternal, the
\* mutator returns, PutOrDo releases the lock and reports a duplicate.
AddMutatorChannel(c) ==
    /\ ~crashed
    /\ calls[c].pc = "mutChannel"
    /\ ackChans' = [ackChans EXCEPT ![calls[c].existing].ackChInternal =
                                        ackChans[c].ackChInternal]
    /\ calls' = [calls EXCEPT ![c].isDup = TRUE, ![c].pc = NextAfterPut(TRUE)]
    /\ UNCHANGED <<status, mapSet, bpSet, mapToAckChan, chSent, lastPut, startPc,
                   stopPc, engine, queue, workers, retries, metrics, crashed>>
    /\ UNCHANGED <<indexerConcurrency, shards, shardCalls>>

\* Lines 1066-1076: an iteration of bulkBeforeAction as far as GetAndDo
\* taking the lock of the key's stripe and finding the entry.
bulkBeforeActionGetAndDo(w) ==
    /\ ~crashed
    /\ workers[w].phase = "before"
    /\ LET request == workers[w].requests[workers[w].i]
           visibilityTaskKey == extractVisibilityTaskKey(request)
       IN  /\ metrics' = AddCounters(metrics, requestsCounted(workers[w]),
                  0, extractVisibilityTaskKeyCorrupted(request), 0)
           /\ IF visibilityTaskKey = ""
              THEN workers' = [workers EXCEPT ![w] = WorkerAdvance(@)]
              ELSE /\ ~StripeHeld(StripeOf(visibilityTaskKey))
                   /\ workers' = [workers EXCEPT ![w] =
                          IF visibilityTaskKey \in DOMAIN mapToAckChan
                          THEN [@ EXCEPT !.phase = "beforeLocked"]
                          ELSE WorkerAdvance(@)]
    /\ UNCHANGED <<status, mapSet, bpSet, mapToAckChan, ackChans, chSent, calls,
                   lastPut, startPc, stopPc, engine, queue, retries, crashed>>
    /\ UNCHANGED <<indexerConcurrency, shards, shardCalls>>

\* Lines 1071-1077: the function of GetAndDo marks the entry started, and
\* GetAndDo releases the lock.
bulkBeforeActionStart(w) ==
    /\ ~crashed
    /\ workers[w].phase = "beforeLocked"
    /\ ackChans' = IF WorkerKey(w) \in DOMAIN mapToAckChan
                   THEN start(ackChans, mapToAckChan[WorkerKey(w)])
                   ELSE ackChans
    /\ workers' = [workers EXCEPT ![w] = WorkerAdvance([@ EXCEPT !.phase = "before"])]
    /\ UNCHANGED <<status, mapSet, bpSet, mapToAckChan, chSent, calls, lastPut, startPc,
                   stopPc, engine, queue, retries, metrics, crashed>>
    /\ UNCHANGED <<indexerConcurrency, shards, shardCalls>>

\* What an iteration of bulkAfterAction sends to the ack channel of its
\* request: "ack", "nack" or "none" (lines 1094-1100 and 1111-1144).
AckDecision(worker) ==
    LET request == worker.requests[worker.i]
        class == Classify(request, ResponseIndexOf(worker))
    IN  IF worker.err # ""
        THEN IF nacksOnError(IsRetryableError(worker.err))
                  /\ extractVisibilityTaskKey(request) # ""
             THEN "nack" ELSE "none"
        ELSE CASE class = "missing" -> "nack"
               [] class = "success" -> "ack"
               [] class = "failure" -> "nack"
               [] OTHER -> "none"

\* What an iteration of bulkAfterAction adds to the counters.
AfterCounters(m, worker) ==
    LET request == worker.requests[worker.i]
        class == Classify(request, ResponseIndexOf(worker))
    IN  IF worker.err # ""
        THEN AddCounters(m, 0, 1,
                 IF nacksOnError(IsRetryableError(worker.err))
                 THEN extractVisibilityTaskKeyCorrupted(request) ELSE 0, 0)
        ELSE AddCounters(m, 0,
                 IF class = "failure" THEN 1 ELSE 0,
                 extractVisibilityTaskKeyCorrupted(request)
                     + (IF class = "skip" THEN 0 ELSE extractDocIDCorrupted(request))
                     + (IF class = "missing" THEN 1 ELSE 0),
                 IF class = "retry" THEN 1 ELSE 0)

\* Lines 1090-1101 and 1106-1146: an iteration of bulkAfterAction as far as
\* RemoveIf taking the lock of the key's stripe and finding the entry.
bulkAfterActionRemoveIf(w) ==
    /\ ~crashed
    /\ workers[w].phase = "after"
    /\ metrics' = AfterCounters(metrics, workers[w])
    /\ IF AckDecision(workers[w]) = "none"
       THEN workers' = [workers EXCEPT ![w] = WorkerAdvance(@)]
       ELSE /\ ~StripeHeld(StripeOf(WorkerKey(w)))
            /\ workers' = [workers EXCEPT ![w] =
                   IF WorkerKey(w) \in DOMAIN mapToAckChan
                   THEN [@ EXCEPT !.phase = "afterLocked"]
                   ELSE WorkerAdvance(@)]
    /\ UNCHANGED <<status, mapSet, bpSet, mapToAckChan, ackChans, chSent, calls,
                   lastPut, startPc, stopPc, engine, queue, retries, crashed>>
    /\ UNCHANGED <<indexerConcurrency, shards, shardCalls>>

\* Lines 1167-1175: the predicate of RemoveIf signals the channel of the
\* entry and returns true, RemoveIf drops the entry and releases the lock.
sendToAckChanLocked(w) ==
    /\ ~crashed
    /\ workers[w].phase = "afterLocked"
    /\ sendToAckChan(WorkerKey(w), AckDecision(workers[w]) = "ack")
    /\ workers' = [workers EXCEPT ![w] = WorkerAdvance([@ EXCEPT !.phase = "after"])]
    /\ UNCHANGED <<status, mapSet, bpSet, ackChans, calls, lastPut, startPc, stopPc,
                   engine, queue, retries, metrics, crashed>>
    /\ UNCHANGED <<indexerConcurrency, shards, shardCalls>>

\* Concurrent Add calls, the engine and the hooks, each compound operation
\* of the map in the steps it takes under the stripe lock.
NextStripes ==
    \/ \E c \in CallIds : \E in \in AddInputs : AddBegin(c, in[1], in[2])
    \/ \E c \in CallIds : AddPutOrDoLock(c)
    \/ \E c \in CallIds : AddMutatorDone(c)
    \/ \E c \in CallIds : AddMutatorAddedAt(c)
    \/ \E c \in CallIds : AddMutatorStartedAt(c)
    \/ \E c \in CallIds : AddMutatorChannel(c)
    \/ \E c \in CallIds : AddBulkProcessorAdd(c)
    \/ \E c \in CallIds : AddReturn(c)
    \/ \E w \in WorkerIds : Flush(w)
    \/ \E w \in WorkerIds : bulkBeforeActionGetAndDo(w)
    \/ \E w \in WorkerIds : bulkBeforeActionStart(w)
    \/ \E w \in WorkerIds : Commit(w)
    \/ \E w \in WorkerIds : bulkAfterActionRemoveIf(w)
    \/ \E w \in WorkerIds : sendToAckChanLocked(w)

SpecStripes == InitStripes /\ [][NextStripes]_vars

\* The processor of Loaded for every concurrency of the configuration and
\* every batch.
InitBatchStripes ==
    \E concurrency \in 1..MaxConcurrency : \E batch \in Batches :
        LoadedWith(concurrency, NoopClient, batch)

\* The engine and the hooks working off the batch, each compound operation
\* of the map in the steps it takes under the stripe lock.
NextBatchStripes ==
    \/ \E w \in WorkerIds : Flush(w)
    \/ \E w \in WorkerIds : bulkBeforeActionGetAndDo(w)
    \/ \E w \in WorkerIds : bulkBeforeActionStart(w)
    \/ \E w \in WorkerIds : Commit(w)
    \/ \E w \in WorkerIds : bulkAfterActionRemoveIf(w)
    \/ \E w \in WorkerIds : sendToAckChanLocked(w)

SpecBatchStripes == InitBatchStripes /\ [][NextBatchStripes]_vars

\* ------------------------------------------------------------------ claims

\* The Add call c has run its PutOrDo on the map.
PastPut(c) == calls[c].pc \in {"enqueue", "return", "done"}

\* The channel currently held by the map entry of key k.
ChannelOf(k) == ackChans[mapToAckChan[k]].ackChInternal

\* The request a hook of worker w handles in its next iteration.
HandledRequest(w) == workers[w].requests[workers[w].i]

\* Some iteration of bulkAfterAction, in either of its branches.
AfterAny == \E w \in WorkerIds : bulkAfterActionStep(w) \/ bulkAfterActionErrStep(w)

\* C1: over any interleaving of Add, the hooks and Stop, at most one value
\* is ever sent on each result channel, so done never meets a full channel.
C1_AtMostOneValuePerChannel ==
    \A c \in CallIds : Len(chSent[c]) <= 1

\* C1 witness: a superseded channel holds false, the channel that replaced
\* it for the same key holds the ack of a response, the entry is gone.
C1_Witness ==
    \E a, b \in CallIds :
        /\ a # b
        /\ calls[a].visibilityTaskKey = calls[b].visibilityTaskKey
        /\ calls[b].isDup
        /\ chSent[a] = <<FALSE>>
        /\ chSent[b] = <<TRUE>>
        /\ calls[a].visibilityTaskKey \notin DOMAIN mapToAckChan

\* C2 (as claimed): every channel an Add returned receives exactly one value
\* unless the coordinator is stopped first. Stated on the states at rest:
\* started, no Add in progress, nothing buffered or in flight in the engine,
\* so that no further value can arrive.
C2_ReturnedChannelSignalledAtRest ==
    ( /\ status = "Started"
      /\ engine = "running"
      /\ ~crashed
      /\ EngineDrained
      /\ \A c \in CallIds : calls[c].pc \in {"idle", "done"} )
    => \A c \in CallIds : calls[c].pc = "done" => Len(chSent[c]) = 1

\* C3: no channel held by a map entry has had a value sent on it.
C3_NoSignalledChannelInMap ==
    \A k \in DOMAIN mapToAckChan : chSent[ChannelOf(k)] = <<>>

\* C3 witness: a channel of key k has been signalled while the map holds an
\* entry for k (with another, unsignalled channel).
C3_Witness ==
    \E c \in CallIds :
        /\ chSent[c] # <<>>
        /\ calls[c].visibilityTaskKey \in DOMAIN mapToAckChan
        /\ ChannelOf(calls[c].visibilityTaskKey) # c

\* The outstanding Adds for key k: past PutOrDo, channel not yet signalled.
Outstanding(k) ==
    {c \in CallIds : PastPut(c) /\ calls[c].visibilityTaskKey = k /\ chSent[c] = <<>>}

\* C4: when c is the only outstanding Add for its key and bulkAfterAction
\* handles a request of that key whose response item (by document id) has a
\* 2xx status, c's channel receives true and the entry of the key is removed.
C4_SuccessResponseAcksTrue ==
    [][ \A w \in WorkerIds :
          ( /\ bulkAfterActionStep(w)
            /\ extractDocID(HandledRequest(w)) \in DOMAIN ResponseIndexOf(workers[w])
            /\ ResponseIndexOf(workers[w])[extractDocID(HandledRequest(w))].Status \in 200..299 )
          => \A c \in CallIds :
                ( /\ Outstanding(calls[c].visibilityTaskKey) = {c}
                  /\ extractVisibilityTaskKey(HandledRequest(w)) = calls[c].visibilityTaskKey )
                => /\ chSent'[c] = <<TRUE>>
                   /\ calls[c].visibilityTaskKey \notin DOMAIN mapToAckChan' ]_vars

\* C4 witness: a returned channel holds true after a 2xx response and its
\* key has no entry.
C4_Witness ==
    \E c \in CallIds :
        /\ calls[c].pc = "done"
        /\ ~calls[c].isDup
        /\ chSent[c] = <<TRUE>>
        /\ calls[c].visibilityTaskKey \notin DOMAIN mapToAckChan

\* C5: the PutOrDo of a duplicate Add sends false on the channel of the
\* ticket it supersedes, in that same step, and nothing on its own channel.
C5_DuplicateAddNacksSuperseded ==
    [][ \A c \in CallIds :
          ( /\ AddPutOrDo(c)
            /\ calls[c].mapLoaded
            /\ calls[c].visibilityTaskKey \in DOMAIN mapToAckChan )
          => /\ chSent[ChannelOf(calls[c].visibilityTaskKey)] = <<>>
             /\ chSent' = [chSent EXCEPT
                              ![ChannelOf(calls[c].visibilityTaskKey)] = <<FALSE>>]
             /\ chSent'[c] = <<>> ]_vars

\* C5 witness: a duplicate Add has run its PutOrDo; the superseded channel
\* holds false and the new one is empty and in the map.
C5_Witness ==
    \E a, b \in CallIds :
        /\ a # b
        /\ calls[b].isDup
        /\ calls[a].visibilityTaskKey = calls[b].visibilityTaskKey
        /\ chSent[a] = <<FALSE>>
        /\ chSent[b] = <<>>
        /\ calls[b].visibilityTaskKey \in DOMAIN mapToAckChan
        /\ ChannelOf(calls[b].visibilityTaskKey) = b

\* The Add calls that have returned.
Returned == {c \in CallIds : calls[c].pc = "done"}

RECURSIVE SumHanded(_)
SumHanded(S) ==
    IF S = {} THEN 0
    ELSE LET c == CHOOSE x \in S : TRUE
         IN  calls[c].handed + SumHanded(S \ {c})

\* C6: an Add hands its request to the engine exactly once when PutOrDo
\* inserted a new entry and never when it found one; so the requests handed
\* over by the Adds that returned are as many as those of them that found no
\* entry for their key.
C6_HandedOnceUnlessDuplicate ==
    /\ \A c \in CallIds :
          /\ calls[c].isDup => calls[c].handed = 0
          /\ (calls[c].pc \in {"return", "done"} /\ ~calls[c].isDup) => calls[c].handed = 1
          /\ calls[c].handed <= 1
    /\ SumHanded(Returned) = Cardinality({c \in Returned : ~calls[c].isDup})

\* C6 witness: two Adds have returned, one a duplicate, and one request was
\* handed to the engine.
C6_Witness ==
    \E a, b \in Returned :
        /\ ~calls[a].isDup
        /\ calls[b].isDup
        /\ SumHanded(Returned) = 1

\* C7: a terminal response classification for key k delivers its ack to the
\* channel of the latest Add for k and to no other channel.
C7_ResponseAcksLatestAdd ==
    [][ \A c \in CallIds :
          (chSent'[c] # chSent[c] /\ AfterAny)
          => /\ lastPut[calls[c].visibilityTaskKey] = c
             /\ Len(chSent'[c]) = 1
             /\ \A b \in CallIds \ {c} : chSent'[b] = chSent[b] ]_vars

\* C7 witness: Add(req1, K) then Add(req2, K) before any flush, then a 201
\* for the document of req1: the first channel holds false, the second true.
C7_Witness ==
    /\ calls[1].visibilityTaskKey = calls[2].visibilityTaskKey
    /\ ~calls[1].isDup
    /\ calls[2].isDup
    /\ calls[2].handed = 0
    /\ chSent[1] = <<FALSE>>
    /\ chSent[2] = <<TRUE>>

\* Calls a and b are both inside Add, for the same key, a has inserted the
\* entry of the key and b is about to run its PutOrDo.
ConcurrentSameKey(a, b) ==
    /\ a # b
    /\ calls[a].visibilityTaskKey = calls[b].visibilityTaskKey
    /\ calls[a].pc \in {"enqueue", "return"}
    /\ ~calls[a].isDup
    /\ calls[b].pc = "put"

\* C8 (as claimed): of two concurrent Adds for one key, the one whose
\* PutOrDo runs second is a duplicate in every interleaving: it nacks the
\* first and hands nothing to the engine.
C8_SecondConcurrentAddIsDuplicate ==
    [][ \A a, b \in CallIds :
          (ConcurrentSameKey(a, b) /\ AddPutOrDo(b) /\ calls[b].mapLoaded)
          => calls'[b].isDup ]_vars

\* C8 (amended): of two concurrent Adds for one key, the one whose PutOrDo
\* runs second is a duplicate exactly when the entry of the key is still in
\* the map; it then sends false on the channel the entry holds, takes the
\* entry over and hands nothing to the engine. When a response has already
\* removed the entry, the second Add inserts its own entry, no value is
\* sent and its request goes to the engine as well.
C8_SecondConcurrentAddByEntry ==
    /\ [][ \A a, b \in CallIds :
             (ConcurrentSameKey(a, b) /\ AddPutOrDo(b) /\ calls[b].mapLoaded)
             => LET k == calls[b].visibilityTaskKey
                IN  IF k \in DOMAIN mapToAckChan
                    THEN /\ calls'[b].isDup
                         /\ calls'[b].pc = "return"
                         /\ chSent' = [chSent EXCEPT ![ChannelOf(k)] = <<FALSE>>]
                         /\ ackChans'[mapToAckChan'[k]].ackChInternal = b
                    ELSE /\ ~calls'[b].isDup
                         /\ calls'[b].pc = "enqueue"
                         /\ chSent' = chSent
                         /\ mapToAckChan'[k] = b ]_vars
    /\ [](\A c \in CallIds :
             calls[c].pc = "done" => calls[c].handed = (IF calls[c].isDup THEN 0 ELSE 1))

\* C8 witness: two Adds for one key are inside Add together, the second a
\* duplicate of the first, whose channel holds false.
C8_Witness ==
    \E a, b \in CallIds :
        /\ a # b
        /\ calls[a].visibilityTaskKey = calls[b].visibilityTaskKey
        /\ calls[a].pc \in {"enqueue", "return"}
        /\ ~calls[a].isDup
        /\ calls[b].pc = "return"
        /\ calls[b].isDup
        /\ chSent[a] = <<FALSE>>
        /\ chSent[b] = <<>>

\* C9: while Started, every unsignalled channel of an Add that has run its
\* PutOrDo is the channel held by the map entry of its key; hence at most
\* one per key.
C9_OneOutstandingPerKey ==
    status = "Started" =>
        \A c \in CallIds :
            (PastPut(c) /\ chSent[c] = <<>>)
            => /\ calls[c].visibilityTaskKey \in DOMAIN mapToAckChan
               /\ ChannelOf(calls[c].visibilityTaskKey) = c

\* C9 witness: Started, two Adds for one key past their PutOrDo, one
\* channel signalled, the other outstanding.
C9_Witness ==
    /\ status = "Started"
    /\ \E a, b \in CallIds :
          /\ a # b
          /\ PastPut(a) /\ PastPut(b)
          /\ calls[a].visibilityTaskKey = calls[b].visibilityTaskKey
          /\ chSent[a] # <<>>
          /\ chSent[b] = <<>>

\* C10: the channel an Add returns is the one that call created, also when
\* a concurrent duplicate Add has overwritten the channel field of its
\* ackChan object before it returns.
C10_ReturnsOwnChannel ==
    \A c \in CallIds : calls[c].pc = "done" => calls[c].returned = c

\* C10 witness: an Add has returned its own channel although the channel
\* field of the object it created now holds the channel of a later Add.
C10_Witness ==
    \E c \in CallIds :
        /\ calls[c].pc = "done"
        /\ calls[c].returned = c
        /\ ackChans[c].ackChInternal # c

\* A request carrying key k is pending in the engine: buffered, or in the
\* batch a flusher is working on, or about to be handed over by the Add
\* that inserted the entry of k.
PendingInEngine(k) ==
    \/ \E n \in DOMAIN queue : extractVisibilityTaskKey(queue[n]) = k
    \/ \E w \in WorkerIds :
          /\ workers[w].phase # "idle"
          /\ \E n \in DOMAIN workers[w].requests :
                extractVisibilityTaskKey(workers[w].requests[n]) = k
    \/ \E a \in CallIds :
          /\ calls[a].pc = "enqueue"
          /\ calls[a].visibilityTaskKey = k

\* C11 (as claimed): whenever the PutOrDo of an Add finds an entry for its
\* key, a request carrying that key is pending in the engine, so that a
\* response will land on the ticket that replaced the entry.
C11_DuplicateHasPendingRequest ==
    [][ \A c \in CallIds :
          ( /\ AddPutOrDo(c)
            /\ calls[c].mapLoaded
            /\ calls[c].visibilityTaskKey \in DOMAIN mapToAckChan )
          => PendingInEngine(calls[c].visibilityTaskKey) ]_vars

\* The keys extracted from the requests of the batch of worker w.
BatchKeys(w) ==
    {extractVisibilityTaskKey(workers[w].requests[n]) :
        n \in DOMAIN workers[w].requests} \ {""}

\* An iteration of bulkAfterAction under a top-level error that is not
\* retryable.
PermanentErrStep(w) ==
    bulkAfterActionErrStep(w) /\ ~IsRetryableError(workers[w].err)

\* C12 (as claimed): when bulkAfterAction has handled a batch under a
\* non-retryable top-level error, the map holds no entry for any key of
\* that batch.
C12_NoBatchKeyInMapAfterError ==
    [][ \A w \in WorkerIds :
          (PermanentErrStep(w) /\ workers[w].i = Len(workers[w].requests))
          => \A k \in BatchKeys(w) : k \notin DOMAIN mapToAckChan' ]_vars

\* C12 (amended): under a non-retryable top-level error each iteration of
\* bulkAfterAction whose request has a key with a map entry sends false,
\* once, on the channel of that entry and removes the entry, and changes
\* nothing else in the map or on the channels; without an entry it changes
\* nothing. When the hook returns, an entry of a key of the batch is one an
\* Add inserted after the hook handled that key: its ticket was never
\* started.
C12_PermanentErrorNacksEntries ==
    [][ \A w \in WorkerIds :
          PermanentErrStep(w)
          => LET k == extractVisibilityTaskKey(HandledRequest(w))
             IN  /\ IF k # "" /\ k \in DOMAIN mapToAckChan
                    THEN /\ chSent[ChannelOf(k)] = <<>>
                         /\ chSent' = [chSent EXCEPT ![ChannelOf(k)] = <<FALSE>>]
                         /\ mapToAckChan' = [j \in DOMAIN mapToAckChan \ {k} |->
                                                mapToAckChan[j]]
                    ELSE /\ chSent' = chSent
                         /\ mapToAckChan' = mapToAckChan
                 /\ workers[w].i = Len(workers[w].requests)
                    => \A j \in BatchKeys(w) :
                          j \in DOMAIN mapToAckChan'
                          => ackChans'[mapToAckChan'[j]].startedAt = 0 ]_vars

\* C12 witness: the hook is between the two requests of a batch that
\* failed for good; the ticket of the first has been nacked by it and a
\* later Add has already inserted a new entry for that key.
C12_Witness ==
    \E w \in WorkerIds :
        /\ workers[w].phase = "after"
        /\ ~IsRetryableError(workers[w].err) /\ workers[w].err # ""
        /\ workers[w].i = 2
        /\ \A c \in CallIds : ~calls[c].isDup
        /\ LET k == extractVisibilityTaskKey(workers[w].requests[1])
           IN  /\ chSent[EarlierCall(1)] = <<FALSE>>
               /\ k \in DOMAIN mapToAckChan
               /\ mapToAckChan[k] \in CallIds

\* An iteration of bulkAfterAction under a retryable top-level error.
RetryableErrStep(w) ==
    bulkAfterActionErrStep(w) /\ IsRetryableError(workers[w].err)

\* C13: under a retryable top-level error no iteration of bulkAfterAction
\* sends a value on a channel or adds, removes or modifies a map entry.
C13_RetryableErrorRoutesNothing ==
    [][ \A w \in WorkerIds :
          RetryableErrStep(w)
          => /\ chSent' = chSent
             /\ mapToAckChan' = mapToAckChan
             /\ ackChans' = ackChans ]_vars

\* C13 witness: the hook is between the two requests of a batch that
\* failed with a retryable error; both entries are in the map and their
\* channels are empty.
C13_Witness ==
    \E w \in WorkerIds :
        /\ workers[w].phase = "after"
        /\ IsRetryableError(workers[w].err)
        /\ workers[w].i = 2
        /\ \A n \in DOMAIN workers[w].requests :
              LET k == extractVisibilityTaskKey(workers[w].requests[n])
              IN  k \in DOMAIN mapToAckChan /\ chSent[ChannelOf(k)] = <<>>

\* C14: a ticket survives bulkAfterAction calls under a retryable top-level
\* error: the hook leaves its entry and its channel alone and the engine
\* commits the same batch again, with a new before/after pair; and when
\* bulkAfterAction then handles its request with a 2xx response item for the
\* document id, its channel, empty until then, receives true and nothing
\* else, and the entry is removed.
C14_TicketSurvivesRetriesThenAcked ==
    /\ [][ \A w \in WorkerIds :
             RetryableErrStep(w)
             => /\ chSent' = chSent
                /\ mapToAckChan' = mapToAckChan
                /\ workers[w].i = Len(workers[w].requests)
                   => /\ workers'[w].phase = "before"
                      /\ workers'[w].requests = workers[w].requests ]_vars
    /\ [][ \A w \in WorkerIds :
             ( /\ bulkAfterActionStep(w)
               /\ extractVisibilityTaskKey(HandledRequest(w)) \in DOMAIN mapToAckChan
               /\ extractDocID(HandledRequest(w)) \in DOMAIN ResponseIndexOf(workers[w])
               /\ ResponseIndexOf(workers[w])[extractDocID(HandledRequest(w))].Status
                     \in 200..299 )
             => LET k == extractVisibilityTaskKey(HandledRequest(w))
                IN  /\ chSent[ChannelOf(k)] = <<>>
                    /\ chSent' = [chSent EXCEPT ![ChannelOf(k)] = <<TRUE>>]
                    /\ k \notin DOMAIN mapToAckChan' ]_vars

\* C14 witness: one request was added; its batch failed once with a
\* retryable error (the only failure counted), was committed again with a
\* second before hook, and the channel holds true, the map is empty.
C14_Witness ==
    /\ metrics.failures = 1
    /\ metrics.requests = 2
    /\ retries = 1
    /\ DOMAIN chSent = 1..EarlierCall(1)
    /\ chSent[EarlierCall(1)] = <<TRUE>>
    /\ mapToAckChan = <<>>

\* bulkAfterActionStep(w) handles a request with a key that has a map
\* entry and whose document id has an item in the response index.
AnsweredStep(w) ==
    /\ bulkAfterActionStep(w)
    /\ extractVisibilityTaskKey(HandledRequest(w)) \in DOMAIN mapToAckChan
    /\ extractDocID(HandledRequest(w)) \in DOMAIN ResponseIndexOf(workers[w])

\* The response item by which bulkAfterAction decides on the request it
\* handles next, and the key of that request.
HandledItem(w) == ResponseIndexOf(workers[w])[extractDocID(HandledRequest(w))]

HandledKey(w) == extractVisibilityTaskKey(HandledRequest(w))

\* The statuses the specification counts as success.
SuccessBySpec(item) ==
    \/ item.Status \in 200..299
    \/ item.Status = 409
    \/ item.Status = 404 /\ item.ErrorType # "index_not_found_exception"

\* C15: isSuccess holds of a response item exactly when its status is in
\* [200, 300), or is 409, or is 404 with an error type other than
\* index_not_found_exception or with no error; true is sent on the channel
\* of the request exactly for those items, before the retryable-status test
\* is reached, and a 404 with index_not_found_exception sends false.
C15_SuccessClassification ==
    [][ \A w \in WorkerIds :
          AnsweredStep(w)
          => LET item == HandledItem(w)
                 ch   == ChannelOf(HandledKey(w))
             IN  /\ isSuccess(item) <=> SuccessBySpec(item)
                 /\ Classify(HandledRequest(w), ResponseIndexOf(workers[w])) = "success"
                      <=> SuccessBySpec(item)
                 /\ chSent'[ch] = <<TRUE>> <=> SuccessBySpec(item)
                 /\ (item.Status = 404 /\ item.ErrorType = "index_not_found_exception")
                      => chSent'[ch] = <<FALSE>> ]_vars

\* C15 witness: in a batch of three answered 409, 404 with
\* index_not_found_exception and 404 without an error, the first channel
\* holds true and the second false when the hook comes to the third.
C15_Witness ==
    \E w \in WorkerIds :
        /\ workers[w].phase = "after"
        /\ workers[w].err = ""
        /\ workers[w].i = 3
        /\ workers[w].outcome[1].Status = 409
        /\ workers[w].outcome[2] = [Status |-> 404, ErrorType |-> "index_not_found_exception"]
        /\ workers[w].outcome[3] = [Status |-> 404, ErrorType |-> ""]
        /\ chSent[EarlierCall(1)] = <<TRUE>>
        /\ chSent[EarlierCall(2)] = <<FALSE>>

\* C16: when bulkAfterAction handles a request with a key whose response
\* item is not a success and has a status that is not retryable, false is
\* sent on the channel of the key's entry and the entry is removed.
C16_PermanentItemFailureNacks ==
    [][ \A w \in WorkerIds :
          ( /\ AnsweredStep(w)
            /\ ~isSuccess(HandledItem(w))
            /\ ~IsRetryableStatus(HandledItem(w).Status) )
          => /\ chSent[ChannelOf(HandledKey(w))] = <<>>
             /\ chSent' = [chSent EXCEPT ![ChannelOf(HandledKey(w))] = <<FALSE>>]
             /\ mapToAckChan' = [k \in DOMAIN mapToAckChan \ {HandledKey(w)} |->
                                    mapToAckChan[k]] ]_vars

\* C16 witness: the first request of a batch was answered 500; the channel
\* of the Add that handed it over holds false and its key has no entry.
C16_Witness ==
    \E w \in WorkerIds : \E c \in CallIds :
        /\ workers[w].phase = "after"
        /\ workers[w].err = ""
        /\ workers[w].i = 2
        /\ workers[w].outcome[1].Status = 500
        /\ calls[c].request = workers[w].requests[1]
        /\ calls[c].handed = 1
        /\ \A b \in CallIds : ~calls[b].isDup
        /\ chSent[c] = <<FALSE>>
        /\ calls[c].visibilityTaskKey \notin DOMAIN mapToAckChan

\* C17: when bulkAfterAction handles a request whose response item is not a
\* success and has a retryable status, the map and the channels stay as
\* they are and the retries counter goes up by one; and when it has handled
\* a batch of three requests answered 201, 429 and 500, the first channel
\* holds true, the second nothing, with its entry still in the map, and the
\* third false.
C17_RetryableItemLeavesTicket ==
    /\ [][ \A w \in WorkerIds :
             ( /\ AnsweredStep(w)
               /\ ~isSuccess(HandledItem(w))
               /\ IsRetryableStatus(HandledItem(w).Status) )
             => /\ chSent' = chSent
                /\ mapToAckChan' = mapToAckChan
                /\ metrics'.retries = metrics.retries + 1 ]_vars
    /\ [][ \A w \in WorkerIds :
             ( /\ bulkAfterActionStep(w)
               /\ workers[w].i = 3
               /\ [n \in 1..3 |-> workers[w].outcome[n].Status] = <<201, 429, 500>> )
             => /\ chSent'[EarlierCall(1)] = <<TRUE>>
                /\ chSent'[EarlierCall(2)] = <<>>
                /\ chSent'[EarlierCall(3)] = <<FALSE>>
                /\ DOMAIN mapToAckChan' =
                      {extractVisibilityTaskKey(workers[w].requests[2])} ]_vars

\* C17 witness: a batch of three has been handled with one success, one
\* retryable status and one permanent failure: true, nothing and false on
\* the three channels, the second entry in the map, its request back in the
\* buffer, one retry and one failure counted.
C17_Witness ==
    /\ DOMAIN chSent = 1..EarlierCall(3)
    /\ chSent[EarlierCall(1)] = <<TRUE>>
    /\ chSent[EarlierCall(2)] = <<>>
    /\ chSent[EarlierCall(3)] = <<FALSE>>
    /\ DOMAIN mapToAckChan = {"k2"}
    /\ metrics.retries = 1
    /\ metrics.failures = 1
    /\ \A w \in WorkerIds : workers[w].phase = "idle"
    /\ Len(queue) = 1

\* C18: when bulkAfterAction handles a request with a key whose document id
\* has no item in the response, the corrupted-data counter goes up by one
\* and, if the key has an entry, false is sent on its channel and the entry
\* is removed.
C18_MissingItemNacks ==
    [][ \A w \in WorkerIds :
          ( /\ bulkAfterActionStep(w)
            /\ HandledKey(w) # ""
            /\ extractDocID(HandledRequest(w)) \notin DOMAIN ResponseIndexOf(workers[w]) )
          => /\ metrics'.corrupted = metrics.corrupted + 1
             /\ IF HandledKey(w) \in DOMAIN mapToAckChan
                THEN /\ chSent[ChannelOf(HandledKey(w))] = <<>>
                     /\ chSent' = [chSent EXCEPT ![ChannelOf(HandledKey(w))] = <<FALSE>>]
                     /\ HandledKey(w) \notin DOMAIN mapToAckChan'
                ELSE chSent' = chSent /\ mapToAckChan' = mapToAckChan ]_vars

\* C18 witness: one request was added and its batch was answered without
\* an item for it: one corrupted-data count, no failure count, false on the
\* channel, the map empty.
C18_Witness ==
    /\ DOMAIN chSent = 1..EarlierCall(1)
    /\ chSent[EarlierCall(1)] = <<FALSE>>
    /\ mapToAckChan = <<>>
    /\ metrics.corrupted = 1
    /\ metrics.failures = 0
    /\ \A w \in WorkerIds : workers[w].phase = "idle"

\* Some hook iteration of worker w.
HookStep(w) ==
    bulkBeforeActionStep(w) \/ bulkAfterActionErrStep(w) \/ bulkAfterActionStep(w)

Perms(n) == {p \in [1..n -> 1..n] : \A a, b \in 1..n : p[a] = p[b] => a = b}

\* The items of a response carrying document id.
ItemsOf(items, id) == {items[n] : n \in {m \in DOMAIN items : items[m].Id = id}}

\* What buildResponseIndex holds for every document id of items: an item
\* of that id, of the greatest status among the items of that id.
HoldsMaxStatus(index, items) ==
    /\ DOMAIN index = {items[n].Id : n \in DOMAIN items}
    /\ \A id \in DOMAIN index :
          /\ index[id] \in ItemsOf(items, id)
          /\ \A item \in ItemsOf(items, id) : item.Status <= index[id].Status

\* The items of the response the after hook of worker w is handling.
ItemsOfWorker(w) == ResponseItems(workers[w].requests, workers[w].outcome, 1)

\* C20: for the items of a bulk response taken in any order, the response
\* index holds, for every document id among them, an item of that id with
\* the greatest status of that id; and bulkAfterAction decides on a request
\* by the item the index holds for its document id.
C20_ResponseIndexKeepsMaxStatus ==
    /\ [](\A w \in WorkerIds :
            (workers[w].phase = "after" /\ workers[w].err = "")
            => LET items == ItemsOfWorker(w)
               IN  \A p \in Perms(Len(items)) :
                      HoldsMaxStatus(
                          buildResponseIndex([n \in 1..Len(items) |-> items[p[n]]]),
                          items))
    /\ [][ \A w \in WorkerIds :
             AnsweredStep(w)
             => LET item == ResponseIndexOf(workers[w])[extractDocID(HandledRequest(w))]
                    ch   == ChannelOf(HandledKey(w))
                IN  /\ \A other \in ItemsOf(ItemsOfWorker(w), extractDocID(HandledRequest(w))) :
                          other.Status <= item.Status
                    /\ chSent'[ch] =
                          (IF isSuccess(item) THEN <<TRUE>>
                           ELSE IF ~IsRetryableStatus(item.Status) THEN <<FALSE>>
                           ELSE <<>>) ]_vars

\* C20 witness: two requests of one document were answered 201 and 500, in
\* that order; the first request has been decided by the 500: its channel
\* holds false.
C20_Witness ==
    \E w \in WorkerIds :
        /\ workers[w].phase = "after"
        /\ workers[w].err = ""
        /\ workers[w].i = 2
        /\ workers[w].requests[1].ID = workers[w].requests[2].ID
        /\ workers[w].outcome[1].Status = 201
        /\ workers[w].outcome[2].Status = 500
        /\ chSent[EarlierCall(1)] = <<FALSE>>

\* The entries a step terminates: a value is sent on the channel and the
\* entry is removed.
Terminated ==
    {k \in DOMAIN mapToAckChan :
        /\ k \notin DOMAIN mapToAckChan'
        /\ chSent'[ChannelOf(k)] # chSent[ChannelOf(k)]}

\* The channels a step sends on and the entries it removes.
SentOn == {c \in DOMAIN chSent : chSent'[c] # chSent[c]}

Removed == DOMAIN mapToAckChan \ DOMAIN mapToAckChan'

\* The requests with a key among the first n of the batch of worker w.
KeyedRequests(w, n) ==
    {m \in 1..n : extractVisibilityTaskKey(workers[w].requests[m]) # ""}

\* C21: one bulkAfterAction call terminates at most as many tickets as its
\* batch has requests with a key: each iteration handles one request and
\* sends on at most one channel and removes at most one entry, none when the
\* key is empty; and over the first call for a batch, the channels holding a
\* value are never more than the requests with a key handled so far.
C21_TerminationsBoundedByKeyedRequests ==
    /\ [][ \A w \in WorkerIds :
             (bulkAfterActionStep(w) \/ bulkAfterActionErrStep(w))
             => LET most == IF HandledKey(w) # "" THEN 1 ELSE 0
                IN  /\ Cardinality(Terminated) <= most
                    /\ Cardinality(SentOn) <= most
                    /\ Cardinality(Removed) <= most
                    /\ SentOn = {ChannelOf(k) : k \in Removed}
                    /\ \/ workers'[w].i = workers[w].i + 1
                       \/ workers[w].i = Len(workers[w].requests) ]_vars
    /\ [](\A w \in WorkerIds :
            ( /\ workers[w].phase = "after"
              /\ metrics.requests = Len(workers[w].requests) )
            => Cardinality({c \in DOMAIN chSent : chSent[c] # <<>>})
                  <= Cardinality(KeyedRequests(w, workers[w].i - 1)))

\* C21 witness: a batch of a sound request and one without the key field
\* failed for good; its after hook has terminated one ticket for two
\* requests, the entry of the key the other was added with is still there.
C21_Witness ==
    /\ \A w \in WorkerIds : workers[w].phase = "idle"
    /\ metrics.requests = 2
    /\ metrics.failures = 2
    /\ metrics.corrupted = 2
    /\ chSent[EarlierCall(1)] = <<FALSE>>
    /\ DOMAIN mapToAckChan = {"k2"}
    /\ chSent[mapToAckChan["k2"]] = <<>>

\* bulkBeforeAction is entered for the batch of worker w.
BeforeEntered(w) == bulkBeforeActionStep(w) /\ workers[w].i = 1

\* C22: the requests counter starts at zero, every call of bulkBeforeAction
\* adds the length of its batch to it, also for a batch committed again,
\* and no other step of any operation changes it; so it is the sum of the
\* lengths of the batches passed to bulkBeforeAction.
C22_RequestsCounterSumsBatchSizes ==
    /\ [][ \A w \in WorkerIds :
             BeforeEntered(w)
             => metrics'.requests = metrics.requests + Len(workers[w].requests) ]_vars
    /\ [][ (~ \E w \in WorkerIds : BeforeEntered(w))
           => metrics'.requests = metrics.requests ]_vars
    /\ [](metrics.requests = 0 \/ \E c \in CallIds : calls[c].handed = 1)

\* C22 witness: two Adds were flushed as one batch, which failed with a
\* retryable error and was committed again: the requests counter is four,
\* both channels hold true.
C22_Witness ==
    /\ metrics.requests = 4
    /\ metrics.failures = 2
    /\ retries = 1
    /\ \A c \in {1, 2} : calls[c].pc = "done" /\ chSent[c] = <<TRUE>>

\* The steps of the Start call and of the Stop call that won their CAS.
StartSteps == {<<"none", "alloc">>, <<"alloc", "run">>, <<"run", "done">>}

StopSteps == {<<"none", "stopEngine">>, <<"stopEngine", "clear">>, <<"clear", "done">>}

\* C23: the status only moves from Initialized to Started, by Start, and
\* from Started to Stopped, by Stop; a Start in any other status than
\* Initialized and a Stop in any other status than Started change nothing;
\* the map is allocated once, the engine is started once and stopped once,
\* and the references are cleared once.
C23_StatusOneWay ==
    /\ [][ status' # status
           => \/ status = "Initialized" /\ status' = "Started" /\ StartCAS
              \/ status = "Started" /\ status' = "Stopped" /\ StopCAS ]_vars
    /\ [][ (StartCAS /\ status # "Initialized") => UNCHANGED vars ]_vars
    /\ [][ (StopCAS /\ status # "Started") => UNCHANGED vars ]_vars
    /\ [][ startPc' # startPc => <<startPc, startPc'>> \in StartSteps ]_vars
    /\ [][ stopPc' # stopPc => <<stopPc, stopPc'>> \in StopSteps ]_vars
    /\ [][ mapSet' # mapSet => (StartAllocMap \/ StopClear) ]_vars
    /\ [][ engine' # engine
           => <<engine, engine'>> \in {<<"none", "running">>, <<"running", "stopped">>} ]_vars

\* C23 witness: the processor was started and stopped; the status is
\* Stopped, both calls are through, the references are cleared.
C23_Witness ==
    /\ status = "Stopped"
    /\ startPc = "done"
    /\ stopPc = "done"
    /\ engine = "stopped"
    /\ ~mapSet /\ ~bpSet

\* C24: of the Start calls made on an Initialized processor one wins the
\* CAS; that call alone allocates the map and starts the engine, and every
\* other Start call, also while the winner is still inside Start, changes
\* nothing.
C24_OneStartWins ==
    /\ [](startPc # "none" <=> status # "Initialized")
    /\ [][ StartCAS
           => IF status = "Initialized"
              THEN status' = "Started" /\ startPc = "none" /\ startPc' = "alloc"
              ELSE UNCHANGED vars ]_vars
    /\ [][ (mapSet' /\ ~mapSet) => (startPc = "alloc" /\ startPc' = "run") ]_vars
    /\ [][ (bpSet' /\ ~bpSet) => (startPc = "run" /\ startPc' = "done") ]_vars
    /\ [][ (engine' = "running" /\ engine # "running")
           => (startPc = "run" /\ engine = "none") ]_vars

\* C24 witness: the Start call that won the CAS has allocated the map and
\* has not yet started the engine; a Start call made now finds the status
\* at Started.
C24_Witness ==
    /\ status = "Started"
    /\ startPc = "run"
    /\ mapSet
    /\ ~bpSet
    /\ engine = "none"

\* A step of the Stop call that won the CAS, or a Stop call losing it.
StopStep == StopCAS \/ StopBulkProcessor \/ StopClear

\* C25 (as claimed): no step of Stop sends a value on a channel, and once
\* Stop has completed no channel receives a value any more.
C25_NoValueAfterStop ==
    /\ [][ StopStep => chSent' = chSent ]_vars
    /\ [][ stopPc = "done" => chSent' = chSent ]_vars

\* A worker of the engine is inside one of the two hooks.
InHook(w) == workers[w].phase \in {"before", "after"}

\* C26: Stop first moves the status to Stopped, then stops the engine,
\* which returns when no batch is buffered or in flight any more, and only
\* then clears the two references; so no iteration of bulkBeforeAction or
\* bulkAfterAction runs while the map reference is cleared.
C26_StopOrderKeepsHooksOffClearedMap ==
    /\ [](stopPc # "none" => status = "Stopped")
    /\ [](stopPc \in {"clear", "done"}
            => engine = "stopped" /\ \A w \in WorkerIds : ~InHook(w))
    /\ [](\A w \in WorkerIds : InHook(w) => mapSet /\ bpSet)
    /\ [][ (engine' = "stopped" /\ engine # "stopped")
           => (stopPc = "stopEngine" /\ stopPc' = "clear" /\ EngineDrained /\ mapSet') ]_vars
    /\ [][ (mapSet /\ ~mapSet')
           => (stopPc = "clear" /\ stopPc' = "done" /\ engine = "stopped" /\ ~bpSet') ]_vars

\* C26 witness: Stop has moved the status to Stopped and waits for the
\* engine while bulkAfterAction is handling a batch, the map still set.
C26_Witness ==
    /\ status = "Stopped"
    /\ stopPc = "stopEngine"
    /\ mapSet
    /\ \E w \in WorkerIds :
          workers[w].phase = "after" /\ workers[w].i = Len(workers[w].requests)

\* C27: an iteration of bulkBeforeAction inserts and removes no map entry
\* and sends on no channel; for a request with a key that has an entry it
\* sets startedAt of that entry's ticket, whatever it was, and leaves every
\* other ticket alone; for a request without a key or with a key that has
\* no entry it changes no ticket.
C27_BeforeHookOnlyMarksStarted ==
    [][ \A w \in WorkerIds :
          bulkBeforeActionStep(w)
          => /\ mapToAckChan' = mapToAckChan
             /\ chSent' = chSent
             /\ IF HandledKey(w) # "" /\ HandledKey(w) \in DOMAIN mapToAckChan
                THEN /\ ackChans'[mapToAckChan[HandledKey(w)]].startedAt # 0
                     /\ \A a \in DOMAIN ackChans :
                           /\ a # mapToAckChan[HandledKey(w)] => ackChans'[a] = ackChans[a]
                           /\ ackChans'[a].ackChInternal = ackChans[a].ackChInternal
                           /\ ackChans'[a].addedAt = ackChans[a].addedAt
                ELSE ackChans' = ackChans ]_vars

\* C27 witness: bulkBeforeAction has been through a batch of a sound
\* request and one without the key field: the ticket of the first is
\* started, the ticket registered under the key the other was added with is
\* not, both entries are in the map and no channel holds a value.
C27_Witness ==
    \E w \in WorkerIds :
        /\ workers[w].phase = "commit"
        /\ metrics.corrupted = 1
        /\ DOMAIN mapToAckChan = {"k1", "k2"}
        /\ ackChans[mapToAckChan["k1"]].startedAt # 0
        /\ ackChans[mapToAckChan["k2"]].startedAt = 0
        /\ \A c \in DOMAIN chSent : chSent[c] = <<>>

\* PutOrDo of call c finds an entry for the call's key.
DuplicatePut(c) ==
    /\ AddPutOrDo(c)
    /\ calls[c].mapLoaded
    /\ calls[c].visibilityTaskKey \in DOMAIN mapToAckChan

\* C28: a duplicate Add nacks the channel of the existing ticket and turns
\* the ticket into the new call's, started or not: channel and addedAt of
\* the new call, startedAt zero, the entry staying in the map; and a
\* response item classified for a key acks the channel the entry holds at
\* that moment, so the replacement's when the ticket was superseded while
\* its batch was in flight.
C28_DuplicateSupersedesStartedOrNot ==
    /\ [][ \A c \in CallIds :
             DuplicatePut(c)
             => LET existing == mapToAckChan[calls[c].visibilityTaskKey]
                IN  /\ chSent' = [chSent EXCEPT ![ackChans[existing].ackChInternal] =
                                                    Append(@, FALSE)]
                    /\ mapToAckChan' = mapToAckChan
                    /\ ackChans'[existing] =
                          [ackChInternal |-> calls[c].retCh,
                           addedAt |-> ackChans[c].addedAt,
                           startedAt |-> 0] ]_vars
    /\ [][ \A w \in WorkerIds :
             ( /\ bulkAfterActionStep(w)
               /\ HandledKey(w) \in DOMAIN mapToAckChan
               /\ Classify(HandledRequest(w), ResponseIndexOf(workers[w]))
                     \in {"success", "failure", "missing"} )
             => /\ chSent' = [chSent EXCEPT ![ChannelOf(HandledKey(w))] =
                      Append(@, Classify(HandledRequest(w),
                                         ResponseIndexOf(workers[w])) = "success")]
                /\ HandledKey(w) \notin DOMAIN mapToAckChan' ]_vars

\* C28 witness: the channel of a duplicate Add holds true, sent through the
\* ticket of the first Add, which has the duplicate's addedAt and no
\* startedAt: the ticket was superseded after bulkBeforeAction had marked
\* it, and the response of that batch acked it.
C28_Witness ==
    \E c \in CallIds : \E a \in DOMAIN ackChans :
        /\ a # c
        /\ calls[c].isDup
        /\ chSent[c] = <<TRUE>>
        /\ chSent[a] = <<FALSE>>
        /\ ackChans[a] = [ackChInternal |-> c, addedAt |-> c, startedAt |-> 0]

\* The other case of C28: the ticket was superseded before its batch was
\* flushed, and bulkBeforeAction marked the replacement.
C28_WitnessPending ==
    \E c \in CallIds : \E a \in DOMAIN ackChans :
        /\ a # c
        /\ calls[c].isDup
        /\ chSent[c] = <<TRUE>>
        /\ chSent[a] = <<FALSE>>
        /\ ackChans[a] = [ackChInternal |-> c, addedAt |-> c, startedAt |-> 1]

\* The step puts true into channel c.
ReceivesTrue(c) ==
    /\ Len(chSent'[c]) > Len(chSent[c])
    /\ chSent'[c][Len(chSent'[c])] = TRUE

\* C29: a channel receives true only in an iteration of bulkAfterAction
\* that runs with a bulk response and handles a request whose key has the
\* map entry holding that channel and whose document has a response item
\* that isSuccess accepts; so not from the mutator of Add, not under a
\* top-level error, not for a missing item, not from Stop.
C29_TrueOnlyFromSuccessItem ==
    [][ \A c \in DOMAIN chSent :
          ReceivesTrue(c)
          => \E w \in WorkerIds :
                /\ bulkAfterActionStep(w)
                /\ workers[w].err = ""
                /\ HandledKey(w) # ""
                /\ HandledKey(w) \in DOMAIN mapToAckChan
                /\ ChannelOf(HandledKey(w)) = c
                /\ extractDocID(HandledRequest(w)) \in DOMAIN ResponseIndexOf(workers[w])
                /\ isSuccess(ResponseIndexOf(workers[w])[extractDocID(HandledRequest(w))])
                /\ HandledKey(w) \notin DOMAIN mapToAckChan' ]_vars

\* C29 witness: the processor has been stopped; one channel holds true,
\* the channel of a ticket a duplicate Add superseded holds false.
C29_Witness ==
    /\ status = "Stopped"
    /\ stopPc = "done"
    /\ \E c \in CallIds : \E d \in CallIds :
          /\ calls[c].isDup
          /\ chSent[c] = <<TRUE>>
          /\ chSent[d] = <<FALSE>>

\* The step leaves the entry, the ticket and the channel of every key
\* other than k as they are.
OtherKeysUntouched(k) ==
    \A j \in DOMAIN mapToAckChan \ {k} :
        /\ j \in DOMAIN mapToAckChan'
        /\ mapToAckChan'[j] = mapToAckChan[j]
        /\ ackChans'[mapToAckChan[j]] = ackChans[mapToAckChan[j]]
        /\ chSent'[ChannelOf(j)] = chSent[ChannelOf(j)]

\* C30: a step of Add for key k, the mutator included, and an iteration of
\* either hook for a request with key k leave the entry, the ticket and the
\* channel of every other key alone: a step that touches another key is
\* none of these. (That a ticket added later can be acknowledged first is
\* what the witness shows.)
C30_OtherKeysUntouched ==
    [][ /\ \A c \in CallIds :
             \/ calls'[c] = calls[c]
             \/ OtherKeysUntouched(calls'[c].visibilityTaskKey)
             \/ ~(\/ AddPutOrDo(c) \/ AddBulkProcessorAdd(c) \/ AddReturn(c)
                  \/ \E in \in AddInputs : AddBegin(c, in[1], in[2]))
        /\ \A w \in WorkerIds :
             \/ workers'[w] = workers[w]
             \/ workers[w].phase \notin {"before", "after"}
             \/ OtherKeysUntouched(HandledKey(w))
             \/ ~(bulkBeforeActionStep(w) \/ bulkAfterActionErrStep(w)
                      \/ bulkAfterActionStep(w)) ]_vars

\* C30 witness: two Adds for different keys have returned; the ticket of
\* the second has been acknowledged, the ticket of the first, added
\* before it, is still in the map with an empty channel.
C30_Witness ==
    /\ calls[1].pc = "done" /\ calls[2].pc = "done"
    /\ calls[1].visibilityTaskKey # calls[2].visibilityTaskKey
    /\ chSent[2] = <<TRUE>>
    /\ chSent[1] = <<>>
    /\ calls[1].visibilityTaskKey \in DOMAIN mapToAckChan
    /\ mapToAckChan[calls[1].visibilityTaskKey] = 1
    /\ calls[2].visibilityTaskKey \notin DOMAIN mapToAckChan

\* The key a request carries, by the way the request was built: the
\* VisibilityTaskKey field of the document of an index or update request,
\* the id of a delete request, and none where the document is no object,
\* the field or the id is missing, the line is no JSON or Source() fails.
KeyOfRequest(request) ==
    CASE request.RequestType \in {"index", "update"} ->
           IF VisibilityTaskKey \in DOMAIN request.Doc
           THEN request.Doc[VisibilityTaskKey] ELSE ""
      [] request.RequestType = "delete" -> request.ID
      [] OTHER -> ""

\* C32: the key the hooks extract from a request is the VisibilityTaskKey
\* field of the body of a two-line request and the document id of a
\* one-line request, and empty after a Source() error, for a line that does
\* not parse and for a missing field; with an empty key the hooks count
\* corrupted data once, touch no ticket and do not crash, otherwise the
\* before hook starts the ticket of that key.
C32_KeyExtraction ==
    /\ [][ \A w \in WorkerIds :
             HookStep(w)
             => /\ extractVisibilityTaskKey(HandledRequest(w))
                     = KeyOfRequest(HandledRequest(w))
                /\ ~crashed'
                /\ KeyOfRequest(HandledRequest(w)) = ""
                   => /\ mapToAckChan' = mapToAckChan
                      /\ ackChans' = ackChans
                      /\ chSent' = chSent ]_vars
    /\ [][ \A w \in WorkerIds :
             bulkBeforeActionStep(w)
             => LET key == KeyOfRequest(HandledRequest(w))
                IN  /\ metrics'.corrupted
                         = metrics.corrupted + (IF key = "" THEN 1 ELSE 0)
                    /\ (key # "" /\ key \in DOMAIN mapToAckChan)
                       => ackChans'[mapToAckChan[key]].startedAt # 0 ]_vars

\* C32 witness: bulkBeforeAction has been through an update and a delete
\* request: the ticket under the field of the update's body and the ticket
\* under the id of the delete are started, nothing was counted corrupted.
C32_Witness ==
    \E w \in WorkerIds :
        /\ workers[w].phase = "commit"
        /\ workers[w].requests[1].RequestType = "update"
        /\ workers[w].requests[2].RequestType = "delete"
        /\ ackChans[mapToAckChan["k1"]].startedAt # 0
        /\ ackChans[mapToAckChan["d2"]].startedAt # 0
        /\ metrics.corrupted = 0

\* C32, the other cases: a Source() error and a delete without an id went
\* through bulkBeforeAction: two corrupted, no ticket started.
C32_WitnessCorrupted ==
    \E w \in WorkerIds :
        /\ workers[w].phase = "commit"
        /\ workers[w].requests[1].RequestType = "broken"
        /\ metrics.corrupted = 2
        /\ \A k \in DOMAIN mapToAckChan : ackChans[mapToAckChan[k]].startedAt = 0

\* The request bulkAfterAction handles has a response item, and that item is
\* neither a success nor of a retryable status.
PermanentItemFailure(w) ==
    LET docID == extractDocID(HandledRequest(w))
        responseIndex == ResponseIndexOf(workers[w])
    IN  /\ docID \in DOMAIN responseIndex
        /\ ~isSuccess(responseIndex[docID])
        /\ ~IsRetryableStatus(responseIndex[docID].Status)

\* No counter decreases.
CountersMonotonic ==
    [][ /\ metrics'.requests >= metrics.requests
        /\ metrics'.failures >= metrics.failures
        /\ metrics'.corrupted >= metrics.corrupted
        /\ metrics'.retries >= metrics.retries ]_vars

\* C33 (as claimed): bulkAfterAction adds one to the failures counter for
\* each request of a batch under a top-level error, retryable or not, and
\* for each request whose response item is a permanent failure, and nothing
\* for a success, a retryable status or a missing item; no counter
\* decreases.
C33_FailuresPerFailedRequest ==
    /\ [][ \A w \in WorkerIds :
             bulkAfterActionErrStep(w) => metrics'.failures = metrics.failures + 1 ]_vars
    /\ [][ \A w \in WorkerIds :
             bulkAfterActionStep(w)
             => metrics'.failures
                  = metrics.failures + (IF PermanentItemFailure(w) THEN 1 ELSE 0) ]_vars
    /\ CountersMonotonic

\* C33 (amended): as claimed, but the permanent failure of a response item
\* is counted only for a request with a non-empty key: a request without a
\* key is skipped before its response item is looked up.
C33_FailuresPerFailedKeyedRequest ==
    /\ [][ \A w \in WorkerIds :
             bulkAfterActionErrStep(w) => metrics'.failures = metrics.failures + 1 ]_vars
    /\ [][ \A w \in WorkerIds :
             bulkAfterActionStep(w)
             => metrics'.failures
                  = metrics.failures
                    + (IF HandledKey(w) # "" /\ PermanentItemFailure(w) THEN 1 ELSE 0) ]_vars
    /\ CountersMonotonic

\* C33 witness: a batch of one request failed with a retryable top-level
\* error, was committed again and got a permanent failure for its item:
\* the counter stands at two and the channel holds false.
C33_Witness ==
    /\ metrics.failures = 2
    /\ metrics.requests = 2
    /\ metrics.retries = 0
    /\ metrics.corrupted = 0
    /\ retries = 1
    /\ mapToAckChan = <<>>
    /\ chSent[EarlierCall(1)] = <<FALSE>>
    /\ \A w \in WorkerIds : workers[w].phase = "idle"

\* The Add call c died on the nil map: it has no entry in the map, its
\* channel is empty, it handed nothing to the engine and returned nothing.
DiedOnNilMap(c) ==
    /\ calls[c].pc = "panic"
    /\ ~calls[c].mapLoaded

\* C34: Add never looks at the status. Whether its PutOrDo runs or dies
\* depends on the map reference it loaded alone, and whether its
\* bulkProcessor.Add runs or dies on the engine reference alone; an Add that
\* found the map reference nil, as before Start and after Stop cleared it,
\* has registered no ticket, handed no request to the engine and returned
\* no channel.
C34_AddDependsOnReferencesOnly ==
    /\ [][ \A c \in CallIds : \A in \in AddInputs :
             AddBegin(c, in[1], in[2]) => calls'[c].mapLoaded = mapSet ]_vars
    /\ [][ \A c \in CallIds :
             AddPutOrDo(c)
             => /\ crashed' <=> ~calls[c].mapLoaded
                /\ calls[c].mapLoaded
                   => calls[c].visibilityTaskKey \in DOMAIN mapToAckChan' ]_vars
    /\ [][ \A c \in CallIds :
             AddBulkProcessorAdd(c) => (crashed' <=> ~bpSet) ]_vars
    /\ [](\A c \in CallIds :
             DiedOnNilMap(c)
             => /\ crashed
                /\ calls[c].handed = 0
                /\ calls[c].returned = 0
                /\ chSent[c] = <<>>
                /\ \A k \in DOMAIN mapToAckChan : mapToAckChan[k] # c)

\* C34 witness: an Add made after Stop had cleared the references died on
\* the nil map, while an Add made after Stop's CAS, the references still
\* set, went through and returned its channel.
C34_Witness ==
    /\ status = "Stopped"
    /\ stopPc = "done"
    /\ crashed
    /\ calls[1].pc = "done" /\ calls[1].returned = 1
    /\ DiedOnNilMap(2)

\* C34, before Start: an Add on the Initialized processor died.
C34_WitnessBeforeStart ==
    /\ status = "Initialized"
    /\ DiedOnNilMap(1)

\* C35 (as claimed): once Start is through, an Add that has run its PutOrDo
\* finds the engine reference set when it reaches bulkProcessor.Add, and no
\* Add runs PutOrDo on a map whose reference Stop has cleared.
C35_AddNeverMeetsClearedReference ==
    /\ [][ \A c \in CallIds :
             (AddBulkProcessorAdd(c) /\ startPc = "done") => bpSet ]_vars
    /\ [][ \A c \in CallIds :
             (AddPutOrDo(c) /\ calls[c].mapLoaded /\ startPc = "done") => mapSet ]_vars

\* A Start call made now finds the status at Started, loses the CAS and
\* returns at once (lines 990-996), changing nothing: in such a state a
\* Start call has returned with the status at Started.
StartReturnsWithStarted == ~crashed /\ status = "Started"

\* C36 (as claimed): where a Start call returns with the status at Started
\* both references are set, so an Add made then loads a map reference that
\* is set and finds the engine reference set.
C36_ReturnedStartMeansReferencesSet ==
    /\ [](StartReturnsWithStarted => (mapSet /\ bpSet))
    /\ [][ \A c \in CallIds : \A in \in AddInputs :
             (StartReturnsWithStarted /\ AddBegin(c, in[1], in[2]))
             => calls'[c].mapLoaded ]_vars

\* The UpdateShard call u has returned without an error.
UpdateSucceeded(u) ==
    /\ shardCalls[u].op = "UpdateShard"
    /\ shardCalls[u].pc = "done"
    /\ shardCalls[u].result = "nil"

\* Two UpdateShard calls for one shard, with the same PreviousRangeID and
\* different new range IDs.
FencedAlike(a, b) ==
    /\ a # b
    /\ shardCalls[a].op = "UpdateShard" /\ shardCalls[b].op = "UpdateShard"
    /\ shardCalls[a].request.ShardID = shardCalls[b].request.ShardID
    /\ shardCalls[a].request.PreviousRangeID = shardCalls[b].request.PreviousRangeID
    /\ shardCalls[a].request.RangeID # shardCalls[b].request.RangeID

\* A stored row changes only when an UpdateShard commits that took the
\* write lock on it in its transaction and read a range ID equal to its
\* PreviousRangeID, the row being the same since.
RowChangesOnlyFenced ==
    [][ \A id \in DOMAIN shards :
          shards'[id] # shards[id]
          => \E u \in ShardCallIds :
                /\ UpdateShardCommit(u)
                /\ LockHolders(id) = {u}
                /\ shards[id].RangeID = shardCalls[u].request.PreviousRangeID
                /\ shards'[id] = ShardsRow(shardCalls[u].request) ]_vars

\* An UpdateShard that finds another range ID stored than its
\* PreviousRangeID returns an error, ShardOwnershipLostError unless the
\* database failed, and leaves the row as it is.
OwnershipLostLeavesRow ==
    [][ \A u \in ShardCallIds :
          ( /\ UpdateShardLockShard(u)
            /\ shardCalls[u].request.ShardID \in DOMAIN shards
            /\ shards[shardCalls[u].request.ShardID].RangeID
                  # shardCalls[u].request.PreviousRangeID )
          => /\ shardCalls'[u].pc = "done"
             /\ shardCalls'[u].result \in {"ShardOwnershipLostError", "Internal"}
             /\ shards' = shards ]_vars

\* C37 (as claimed): UpdateShard changes the row only when the range ID it
\* read under the write lock equals its PreviousRangeID, else it returns
\* ShardOwnershipLostError and leaves the row; and of two UpdateShard calls
\* with the same PreviousRangeID and different new range IDs at most one
\* succeeds.
C37_AtMostOneFencedUpdateSucceeds ==
    /\ RowChangesOnlyFenced
    /\ OwnershipLostLeavesRow
    /\ [](\A a \in ShardCallIds : \A b \in ShardCallIds :
             FencedAlike(a, b) => ~(UpdateSucceeded(a) /\ UpdateSucceeded(b)))

\* C37 (amended): as claimed, but two such calls both succeed when one of
\* them, or a third update, writes their PreviousRangeID as the new range
\* ID: the row then passes the test of the other again.
C37_FencedUpdatesBothSucceedOnlyIfRestored ==
    /\ RowChangesOnlyFenced
    /\ OwnershipLostLeavesRow
    /\ [](\A a \in ShardCallIds : \A b \in ShardCallIds :
             (FencedAlike(a, b) /\ UpdateSucceeded(a) /\ UpdateSucceeded(b))
             => \E u \in ShardCallIds :
                   /\ UpdateSucceeded(u)
                   /\ shardCalls[u].request.ShardID = shardCalls[a].request.ShardID
                   /\ shardCalls[u].request.RangeID
                         = shardCalls[a].request.PreviousRangeID)

\* C37 witness: two UpdateShard calls with the same PreviousRangeID, each
\* writing another range ID than that; one succeeded and its row is stored,
\* the other returned ShardOwnershipLostError.
C37_Witness ==
    \E a \in ShardCallIds : \E b \in ShardCallIds :
        /\ FencedAlike(a, b)
        /\ shardCalls[a].request.RangeID # shardCalls[a].request.PreviousRangeID
        /\ UpdateSucceeded(a)
        /\ shardCalls[b].pc = "done"
        /\ shardCalls[b].result = "ShardOwnershipLostError"
        /\ shards[shardCalls[a].request.ShardID] = ShardsRow(shardCalls[a].request)

\* C38: a CreateShard whose GetShard reads the shard returns
\* ShardAlreadyExistError and inserts nothing; a row comes into the table
\* only by the insert of a CreateShard whose GetShard returned an error,
\* and it is the row of that request.
C38_CreateShardOnlyAfterFailedGet ==
    /\ [][ \A u \in ShardCallIds :
             ( /\ CreateShardGetShard(u)
               /\ shardCalls[u].request.ShardID \in DOMAIN shards
               /\ shardCalls'[u].getErr = "nil" )
             => /\ shardCalls'[u].pc = "done"
                /\ shardCalls'[u].result = "ShardAlreadyExistError"
                /\ shards' = shards ]_vars
    /\ [][ \A id \in ShardIDs :
             (id \notin DOMAIN shards /\ id \in DOMAIN shards')
             => \E u \in ShardCallIds :
                   /\ CreateShardInsert(u)
                   /\ shardCalls[u].request.ShardID = id
                   /\ shardCalls[u].getErr \in {"NotFound", "Internal"}
                   /\ shards'[id] = ShardsRow(shardCalls[u].request) ]_vars
    /\ [](\A u \in ShardCallIds :
             shardCalls[u].result = "ShardAlreadyExistError"
             => /\ shardCalls[u].op = "CreateShard"
                /\ shardCalls[u].getErr = "nil"
                /\ shardCalls[u].request.ShardID \in DOMAIN shards
                /\ shards[shardCalls[u].request.ShardID].Data # u)

\* C38 witness: one CreateShard found no shard and inserted its row; a
\* later one for the same shard returned ShardAlreadyExistError, the row of
\* the first still stored.
C38_Witness ==
    \E u \in ShardCallIds : \E v \in ShardCallIds :
        /\ shardCalls[u].op = "CreateShard"
        /\ shardCalls[u].getErr = "NotFound"
        /\ shardCalls[u].result = "nil"
        /\ shardCalls[v].op = "CreateShard"
        /\ shardCalls[v].result = "ShardAlreadyExistError"
        /\ shardCalls[v].request.ShardID = shardCalls[u].request.ShardID
        /\ shards[shardCalls[u].request.ShardID] = ShardsRow(shardCalls[u].request)

\* The processes inside a compound operation on key k, as call or worker.
Holders(k) ==
    {<<"call", c>> : c \in {b \in CallIds : CallHoldsLock(b, k)}}
        \cup {<<"hook", w>> : w \in {v \in WorkerIds : WorkerHoldsLock(v, k)}}

\* The keys the map has held or may hold.
MapKeys == {in[2] : in \in AddInputs} \cup DOMAIN mapToAckChan

\* This step changes a field of the ticket the map holds for k, signals its
\* channel, or drops the entry.
TicketTouched(k) ==
    /\ k \in DOMAIN mapToAckChan
    /\ \/ k \notin DOMAIN mapToAckChan'
       \/ ackChans'[mapToAckChan[k]] # ackChans[mapToAckChan[k]]
       \/ chSent'[ChannelOfEntry(k)] # chSent[ChannelOfEntry(k)]

\* This step is one of a process that holds the stripe lock for k.
StepOfHolder(k) ==
    \/ \E c \in CallIds : CallHoldsLock(c, k) /\ calls'[c] # calls[c]
    \/ \E w \in WorkerIds : WorkerHoldsLock(w, k) /\ workers'[w] # workers[w]

\* C31: every access to the channel, addedAt and startedAt of a ticket
\* that is reachable from the map happens inside a stripe-locked compound
\* operation on the ticket's key, so that supersession, mark-started and
\* terminal ack of one key are mutually atomic: at most one process is
\* inside an operation on the keys of one stripe; a step that touches the
\* ticket of a key is a step of the process inside the operation on that
\* key; and a supersession leaves the ticket with exactly the channel and
\* times of the superseding Add, still in the map, its new channel empty
\* and the old channel nacked exactly once by it.
C31_TicketFieldsOnlyUnderStripeLock ==
    /\ [](\A j \in MapKeys : \A k \in MapKeys :
            StripeOf(j) = StripeOf(k) => Cardinality(Holders(j) \cup Holders(k)) <= 1)
    /\ [][\A k \in MapKeys : TicketTouched(k) => StepOfHolder(k)]_vars
    /\ [][\A c \in CallIds :
            AddMutatorChannel(c) =>
                LET key == calls[c].visibilityTaskKey
                IN  /\ key \in DOMAIN mapToAckChan'
                    /\ mapToAckChan'[key] = calls[c].existing
                    /\ ackChans'[calls[c].existing] = newAckChan(c)
                    /\ chSent'[c] = <<>>]_vars

\* C31 witness: an Add is half way through its mutator, between the copy of
\* addedAt and the copy of startedAt, while the before hook is at a request
\* of the same key and waits for the stripe.
C31_Witness ==
    \E c \in CallIds : \E w \in WorkerIds :
        /\ calls[c].pc = "mutStartedAt"
        /\ workers[w].phase = "before"
        /\ WorkerKey(w) = calls[c].visibilityTaskKey
        /\ ackChans[calls[c].existing].addedAt = c
        /\ ackChans[calls[c].existing].ackChInternal # c

\* C31 witness: the after hook is inside RemoveIf on one key while an Add
\* of another key of the same stripe waits at PutOrDo.
C31_WitnessSharedStripe ==
    \E c \in CallIds : \E w \in WorkerIds :
        /\ workers[w].phase = "afterLocked"
        /\ calls[c].pc = "put"
        /\ WorkerKey(w) # calls[c].visibilityTaskKey
        /\ StripeOf(WorkerKey(w)) = StripeOf(calls[c].visibilityTaskKey)

\* C39: for a positive concurrency, hashFn gives every string key an index
\* from 0 to concurrency - 1 and a key that is no string the index 0, so
\* that the keys spread over at most concurrency stripes and every stripe
\* an operation locks is one of them.
C39_HashFnWithinConcurrency ==
    indexerConcurrency > 0 =>
        /\ \A key \in HashKeys :
              /\ hashFn(key) \in 0..(indexerConcurrency - 1)
              /\ ~key.isString => hashFn(key) = 0
        /\ Cardinality({hashFn(key) : key \in HashKeys}) <= indexerConcurrency
        /\ \A k \in MapKeys :
              Holders(k) # {} => StripeOf(k) \in 0..(indexerConcurrency - 1)

\* C39 witness: with three stripes a hook holds the lock of a stripe other
\* than the first, for a key whose hash is not below the concurrency.
C39_Witness ==
    \E w \in WorkerIds :
        /\ indexerConcurrency = MaxConcurrency
        /\ workers[w].phase \in HookLockedPhases
        /\ Hash32(WorkerKey(w)) >= indexerConcurrency
        /\ StripeOf(WorkerKey(w)) # 0

====
